---- MODULE Spec2Model ----
(***************************************************************************)
(* Model of pipeline/sales_pipeline.py, the beverage sales intelligence    *)
(* pipeline: relevance filter, category detection, region assignment,      *)
(* region bucketing, deduplication, time window and scoring.               *)
(*                                                                         *)
(* Texts, titles and URLs are character strings; keyword matching is       *)
(* Python's substring test on the lower-cased text.  Times are minutes     *)
(* relative to NOW.  Scores are integers in units of 1e-4.                 *)
(***************************************************************************)
EXTENDS Integers, Sequences, FiniteSets, TLC

VARIABLES
    text,             \* argument of the three text classifiers
    feed_regions,     \* argument of assign_region
    done,             \* which classifiers have been applied to text
    is_relevant,      \* result of is_beverage_relevant(text)
    category,         \* result of detect_category(text)
    matched,          \* assign_region: keyword-matched list (line 429)
    assigned_regions, \* assign_region: returned list
    relevant,         \* run_pipeline: list of relevant articles
    region_articles,  \* run_pipeline: region id -> candidate list
    global_articles,  \* run_pipeline: articles whose tag is no region id
    stage,            \* run_pipeline: position in steps 3..4
    articles,         \* candidate list of one region
    unique,           \* result of deduplicate(articles), as positions
    in_window,        \* run_pipeline: window survivors of one region
    used_fallback,    \* run_pipeline: fallback flag of one region
    phase,            \* position in the per-region processing
    article,          \* argument of score_article
    strength,         \* argument region_match_strength of score_article
    scores,           \* the calls of score_article made, with their results
    cur_rid,          \* run_pipeline: rid, the region of the loop of line 553
    formatted,        \* run_pipeline: output articles of the region
    region_news,      \* run_pipeline: region id -> output articles
    health,           \* run_pipeline: region id -> health record
    feed_i,           \* run_pipeline: position of the loop of line 507
    errors,           \* run_pipeline: error entries of the fetch loop
    source_stats,     \* run_pipeline: counters of the fetch loop
    all_raw,          \* run_pipeline: raw items fetched so far
    responses,        \* what the network gave for the feeds fetched so far
    briefings,        \* run_pipeline: region id -> briefing
    saved,            \* the documents written by run_pipeline
    run_no,           \* the number of the call of run_pipeline
    first_news        \* region_news at the end of the first call

vars == <<text, feed_regions, done, is_relevant, category, matched,
          assigned_regions, relevant, region_articles, global_articles,
          stage, articles, unique, in_window, used_fallback, phase,
          article, strength, scores, cur_rid, formatted, region_news, health,
          feed_i, errors, source_stats, all_raw, responses, briefings,
          saved, run_no, first_news>>

textVars   == <<text, feed_regions, done, is_relevant, category, matched,
                assigned_regions>>
bucketVars == <<relevant, region_articles, global_articles, stage>>
regionVars == <<articles, unique, in_window, used_fallback, phase>>
scoreVars  == <<article, strength, scores>>
outVars    == <<cur_rid, formatted, region_news, health>>
fetchVars  == <<feed_i, errors, source_stats, all_raw, responses>>
runVars    == <<briefings, saved, run_no, first_news>>

(***************************************************************************)
(* Bounds of the model                                                     *)
(***************************************************************************)
MaxFrags    == 2   \* fragments concatenated into one text
MaxRelevant == 2   \* relevant articles entering the bucketing step
MaxDedup    == 3   \* articles in a list given to deduplicate
MaxWindow   == 11  \* deduplicated candidates of a region
MaxCalls    == 2   \* calls of score_article in one behaviour
MaxBatch    == 50  \* articles of the longest batch of candidates
MaxFeeds    == 3   \* feeds fetched by the loop of line 508

(***************************************************************************)
(* Python string primitives                                                *)
(***************************************************************************)
\* the element of a one-element set; {e(x) : x \in {v}} stands for the
\* local assignment x = v followed by e(x)
Only(S) == CHOOSE r \in S : TRUE

\* kw in t
Contains(t, kw) ==
    Only({\E i \in 1..(Len(v) - Len(kw) + 1) :
              SubSeq(v, i, i + Len(kw) - 1) = kw
             : v \in {t}})

LowerChar(c) ==
    CASE c = "A" -> "a" [] c = "B" -> "b" [] c = "C" -> "c" [] c = "D" -> "d"
      [] c = "E" -> "e" [] c = "F" -> "f" [] c = "G" -> "g" [] c = "H" -> "h"
      [] c = "I" -> "i" [] c = "J" -> "j" [] c = "K" -> "k" [] c = "L" -> "l"
      [] c = "M" -> "m" [] c = "N" -> "n" [] c = "O" -> "o" [] c = "P" -> "p"
      [] c = "Q" -> "q" [] c = "R" -> "r" [] c = "S" -> "s" [] c = "T" -> "t"
      [] c = "U" -> "u" [] c = "V" -> "v" [] c = "W" -> "w" [] c = "X" -> "x"
      [] c = "Y" -> "y" [] c = "Z" -> "z" [] OTHER -> c

\* s.lower()
RECURSIVE Lower(_)
Lower(s) ==
    Only({IF Len(v) = 0 THEN ""
          ELSE LowerChar(SubSeq(v, 1, 1)) \o Lower(SubSeq(v, 2, Len(v)))
             : v \in {s}})

\* any(kw in t for kw in kws)
AnyIn(kws, t) ==
    Only({\E i \in 1..Len(kws) : Contains(v, kws[i]) : v \in {t}})

\* the elements of a list, as a set
Range(s) == {s[i] : i \in 1..Len(s)}

Min(a, b) == IF a <= b THEN a ELSE b
Max(a, b) == IF a >= b THEN a ELSE b

\* s[:n] and s[n:] (n counted from 0, as in Python)
Take(s, n) == SubSeq(s, 1, Min(n, Len(s)))
Drop(s, n) == SubSeq(s, n + 1, Len(s))

\* s.find(c, start), as a position counted from 1; 0 when c is not found
Find(s, c, start) ==
    LET hits == {i \in start..Len(s) : SubSeq(s, i, i) = c}
    IN  IF hits = {} THEN 0 ELSE CHOOSE i \in hits : \A j \in hits : i <= j

\* s.rfind(c), as a position counted from 1; 0 when c is not found
RFind(s, c) ==
    LET hits == {i \in 1..Len(s) : SubSeq(s, i, i) = c}
    IN  IF hits = {} THEN 0 ELSE CHOOSE i \in hits : \A j \in hits : i >= j

\* s.rstrip(c)
RECURSIVE RStrip(_, _)
RStrip(s, c) ==
    IF Len(s) > 0 /\ SubSeq(s, Len(s), Len(s)) = c
    THEN RStrip(SubSeq(s, 1, Len(s) - 1), c)
    ELSE s

\* s.lstrip(c)
RECURSIVE LStrip(_, _)
LStrip(s, c) ==
    IF Len(s) > 0 /\ SubSeq(s, 1, 1) = c
    THEN LStrip(SubSeq(s, 2, Len(s)), c)
    ELSE s

\* s.strip(), for strings whose only whitespace is the space
Strip(s) == LStrip(RStrip(s, " "), " ")


(***************************************************************************)
(* Configuration tables (sales_pipeline.py, lines 41-248)                  *)
(***************************************************************************)
\* times are minutes relative to NOW, a publish time in the past is negative
NOW             == 0
MinutesPerDay   == 1440
WINDOW_DAYS     == 28
FALLBACK_DAYS   == 42
MIN_ITEMS       == 10
CUTOFF          == NOW - WINDOW_DAYS * MinutesPerDay
FALLBACK_CUTOFF == NOW - FALLBACK_DAYS * MinutesPerDay

BEVERAGE_KEYWORDS ==
    <<"beverage", "drink", "juice", "soft drink", "energy drink",
      "smoothie", "water", "tea", "coffee", "rtd", "ready to drink",
      "functional", "carbonat", "sparkling", "soda", "seltzer",
      "tonic", "boisson", "bebida", "getraenk", "succo", "saft", "jus",
      "launch", "new product", "innovation", "sugar tax",
      "nutri-score", "packaging", "regulation", "labelling", "price",
      "pricing", "commodity", "concentrate", "probiotic", "prebiotic",
      "adaptogen", "nootropic", "protein drink", "collagen",
      "electrolyte", "non-alcoholic", "alcohol-free", "zero alcohol",
      "low alcohol", "kombucha", "kefir", "fermented">>

EXCLUSIONS ==
    <<"cryptocurrency", "bitcoin", "stock market", "nasdaq", "nyse",
      "real estate", "mortgage", "auto loan", "car insurance",
      "celebrity gossip", "sports score", "football result", "recipe ",
      "cooking tip", "how to make", "diy ", "raspberry pi",
      "python programming", "javascript">>

CATEGORY_RULES ==
    <<[cat |-> "regulatory", keywords |->
          <<"regulation", "regulat", "law", "directive", "tax", "ban",
            "label", "nutri-score", "ppwr", "egalim", "fda", "efsa",
            "recall", "compliance">>],
      [cat |-> "pricing", keywords |->
          <<"price", "cost", "inflation", "commodity", "margin", "tariff",
            "import cost", "promotion", "discount", "cheaper", "expensive">>],
      [cat |-> "launch", keywords |->
          <<"launch", "new product", "new range", "introduces", "unveil",
            "debut", "release", "rolls out", "enters market", "expands">>],
      [cat |-> "competitor", keywords |->
          <<"acquisition", "acquire", "merger", "m&a", "takeover",
            "partnership", "joint venture", "restructur", "layoff",
            "appoint">>],
      [cat |-> "supply_chain", keywords |->
          <<"supply chain", "shortage", "logistics", "packaging", "aluminum",
            "pet resin", "glass", "can ", "bottle", "recycl", "pcr">>],
      [cat |-> "retail", keywords |->
          <<"retail", "supermarket", "hypermarket", "convenience",
            "shelf space", "private label", "store brand", "e-commerce",
            "online retail">>],
      [cat |-> "innovation", keywords |->
          <<"innovation", "patent", "r&d", "research", "technology",
            "formula", "ingredient", "functional", "probiotic", "adaptogen">>],
      [cat |-> "trend", keywords |->
          <<"trend", "consumer", "demand", "growth", "market", "insight",
            "report", "forecast", "wellness", "health">>],
      [cat |-> "macro", keywords |->
          <<"gdp", "economy", "inflation", "interest rate",
            "consumer spending", "market size", "industry">>]>>

RegionIds == <<"usa", "germany", "france", "spain", "italy", "austria">>

REGIONS ==
    [rid \in Range(RegionIds) |->
      CASE rid = "usa" ->
          [keywords |-> <<"usa", "united states", "u.s.", "american", "fda",
                         "north america", "us market">>,
           negative |-> <<"australian", "austria">>]
        [] rid = "germany" ->
          [keywords |-> <<"germany", "german", "deutschland", "dach", "bundesrat",
                         "lebensmittel">>,
           negative |-> <<>>]
        [] rid = "france" ->
          [keywords |-> <<"france", "french", "francais", "egalim", "leclerc", "carrefour">>,
           negative |-> <<>>]
        [] rid = "spain" ->
          [keywords |-> <<"spain", "spanish", "espana", "madrid", "barcelona", "mercadona",
                         "catalonia">>,
           negative |-> <<>>]
        [] rid = "italy" ->
          [keywords |-> <<"italy", "italian", "italia", "milan", "rome", "aperitivo",
                         "esselunga">>,
           negative |-> <<>>]
        [] rid = "austria" ->
          [keywords |-> <<"austria", "austrian", "wien", "vienna", "spar austria", "hofer",
                         "alnatura", "pfand">>,
           negative |-> <<"australia">>]]

TIER1_FEEDS ==
    <<[name |-> "FoodNavigator", tier |-> 1,
       regions |-> <<"global">>],
      [name |-> "BeverageDaily", tier |-> 1,
       regions |-> <<"global">>],
      [name |-> "Just-Drinks", tier |-> 1,
       regions |-> <<"global">>],
      [name |-> "FoodNavigator-USA", tier |-> 1,
       regions |-> <<"usa">>],
      [name |-> "Beverage Industry Magazine", tier |-> 1,
       regions |-> <<"usa">>],
      [name |-> "Drinks Business", tier |-> 1,
       regions |-> <<"global">>],
      [name |-> "Food & Drink Technology", tier |-> 1,
       regions |-> <<"global">>]>>

TIER2_FEEDS ==
    <<[name |-> "FDA Recalls", tier |-> 2,
       regions |-> <<"usa">>],
      [name |-> "EFSA News", tier |-> 2,
       regions |-> <<"germany", "france", "spain", "italy", "austria">>]>>

TIER3_FEEDS ==
    <<[name |-> "Coca-Cola Press", tier |-> 3,
       regions |-> <<"global">>],
      [name |-> "Nestle News", tier |-> 3,
       regions |-> <<"global">>]>>

\* number of Google News queries per region (TIER4_QUERIES)
TIER4_QUERIES ==
    [rid \in Range(RegionIds) |->
      CASE rid = "usa" -> 12 [] rid = "germany" -> 8 [] rid = "france" -> 6
        [] rid = "spain" -> 5 [] rid = "italy" -> 5 [] rid = "austria" -> 4]

\* the feeds the loop at lines 180-189 appends for one region
Tier4Of(region) ==
    [i \in 1..TIER4_QUERIES[region] |->
        [name |-> "GNews:" \o region \o ":" \o ToString(i - 1), tier |-> 4,
         regions |-> <<region>>]]

TIER4_FEEDS ==
    Tier4Of("usa") \o Tier4Of("germany") \o Tier4Of("france")
        \o Tier4Of("spain") \o Tier4Of("italy") \o Tier4Of("austria")

ALL_FEEDS == TIER1_FEEDS \o TIER2_FEEDS \o TIER3_FEEDS \o TIER4_FEEDS

(***************************************************************************)
(* Relevance filter, category detection, region assignment                 *)
(***************************************************************************)
\* the filter with the two tests in the wrong order
is_beverage_relevant_InclusionFirst(txt) ==
    LET t == Lower(txt)
    IN  IF AnyIn(BEVERAGE_KEYWORDS, t) THEN TRUE
        ELSE FALSE

is_beverage_relevant(txt) ==
    LET t == Lower(txt)
    IN  IF AnyIn(EXCLUSIONS, t) THEN FALSE
        ELSE AnyIn(BEVERAGE_KEYWORDS, t)

\* the loop of detect_category from rule i on
RECURSIVE category_from(_, _)
category_from(t, i) ==
    IF i > Len(CATEGORY_RULES) THEN "trend"
    ELSE IF AnyIn(CATEGORY_RULES[i].keywords, t) THEN CATEGORY_RULES[i].cat
    ELSE category_from(t, i + 1)

\* the loop run from the last rule to the first: the last matching rule wins
RECURSIVE category_back(_, _)
category_back(t, i) ==
    IF i < 1 THEN "trend"
    ELSE IF AnyIn(CATEGORY_RULES[i].keywords, t) THEN CATEGORY_RULES[i].cat
    ELSE category_back(t, i - 1)

detect_category_LastRuleWins(txt) ==
    category_back(Lower(txt), Len(CATEGORY_RULES))

detect_category(txt) == category_from(Lower(txt), 1)

\* a region is blocked by the negative keywords of any region
keyword_matched_SharedNegatives(txt) ==
    LET t == Lower(txt)
    IN  SelectSeq(RegionIds,
            LAMBDA rid : /\ \A r \in Range(RegionIds) :
                                ~AnyIn(REGIONS[r].negative, t)
                         /\ AnyIn(REGIONS[rid].keywords, t))

\* assign_region, lines 422-429: the list matched after the loop
keyword_matched(txt) ==
    LET t == Lower(txt)
    IN  SelectSeq(RegionIds,
            LAMBDA rid : /\ ~AnyIn(REGIONS[rid].negative, t)
                         /\ AnyIn(REGIONS[rid].keywords, t))

\* the fallback without the trust in the feed's declared regions
assign_region_NoFeedFallback(txt, fr) ==
    LET m == keyword_matched(txt)
    IN  IF m # <<>> THEN m ELSE <<"global">>

assign_region(txt, fr) ==
    LET m  == keyword_matched(txt)
        m2 == IF m = <<>> /\ fr # <<"global">>
              THEN SelectSeq(fr, LAMBDA r : r \in DOMAIN REGIONS)
              ELSE m
    IN  IF m2 # <<>> THEN m2 ELSE <<"global">>

(***************************************************************************)
(* Inputs of the text classifiers: a title and a summary joined by a       *)
(* space, as in f"{a['title']} {a['summary']}"                             *)
(***************************************************************************)
Vocabulary ==
    {"Bitcoin", "recipe", "Juice", "Nutri-Score label", "launch",
     "Australian", "Austria", "Wien", "USA FDA", "German", "GDP", "Quiz",
     "price"}

RECURSIVE TextsOfLen(_)
TextsOfLen(n) ==
    IF n = 1 THEN Vocabulary
    ELSE {f \o " " \o t : f \in Vocabulary, t \in TextsOfLen(n - 1)}

Texts == UNION {TextsOfLen(n) : n \in 1..MaxFrags}

\* the declared regions of the configured feeds
FeedRegions == {ALL_FEEDS[i].regions : i \in 1..Len(ALL_FEEDS)}

idleBucket == /\ relevant = <<>>
              /\ region_articles = [r \in Range(RegionIds) |-> <<>>]
              /\ global_articles = <<>>
              /\ stage = "idle"
idleRegion == /\ articles = <<>>
              /\ unique = <<>>
              /\ in_window = <<>>
              /\ used_fallback = FALSE
              /\ phase = "idle"
idleScore  == /\ article = [published |-> 0, category |-> "trend", tier |-> 4]
              /\ strength = "low"
              /\ scores = <<>>
idleOut    == /\ cur_rid = "usa"
              /\ formatted = <<>>
              /\ region_news = <<>>
              /\ health = <<>>
idleFetch  == /\ feed_i = 1
              /\ errors = <<>>
              /\ source_stats = [ok |-> 0, failed |-> 0]
              /\ all_raw = <<>>
              /\ responses = <<>>
idleRun    == /\ briefings = <<>>
              /\ saved = <<>>
              /\ run_no = 1
              /\ first_news = <<>>
idleText   == /\ text = ""
              /\ feed_regions = <<"global">>
              /\ done = {}
              /\ is_relevant = FALSE
              /\ category = ""
              /\ matched = <<>>
              /\ assigned_regions = <<>>

InitText ==
    /\ text \in Texts
    /\ feed_regions = <<"global">>
    /\ done = {}
    /\ is_relevant = FALSE
    /\ category = ""
    /\ matched = <<>>
    /\ assigned_regions = <<>>
    /\ idleBucket /\ idleRegion /\ idleScore /\ idleOut /\ idleFetch
    /\ idleRun

IsBeverageRelevant ==
    /\ "filter" \notin done
    /\ is_relevant' = is_beverage_relevant(text)
    /\ done' = done \cup {"filter"}
    /\ UNCHANGED <<text, feed_regions, category, matched, assigned_regions>>
    /\ UNCHANGED <<bucketVars, regionVars, scoreVars, outVars, fetchVars, runVars>>

\* the classifiers are applied in the order of run_pipeline, lines 525-535
DetectCategory ==
    /\ "filter" \in done
    /\ "category" \notin done
    /\ category' = detect_category(text)
    /\ done' = done \cup {"category"}
    /\ UNCHANGED <<text, feed_regions, is_relevant, matched, assigned_regions>>
    /\ UNCHANGED <<bucketVars, regionVars, scoreVars, outVars, fetchVars, runVars>>

AssignRegion ==
    /\ "category" \in done
    /\ "region" \notin done
    /\ \E fr \in FeedRegions :
          /\ feed_regions' = fr
          /\ assigned_regions' = assign_region(text, fr)
    /\ matched' = keyword_matched(text)
    /\ done' = done \cup {"region"}
    /\ UNCHANGED <<text, is_relevant, category>>
    /\ UNCHANGED <<bucketVars, regionVars, scoreVars, outVars, fetchVars, runVars>>

NextText == IsBeverageRelevant \/ DetectCategory \/ AssignRegion

SpecText == InitText /\ [][NextText]_vars

(***************************************************************************)
(* Claims about the text classifiers (checked under SpecText)              *)
(***************************************************************************)
LowText == Lower(text)
ExclusionHit == \E kw \in Range(EXCLUSIONS) : Contains(LowText, kw)
InclusionHit == \E kw \in Range(BEVERAGE_KEYWORDS) : Contains(LowText, kw)

\* C1: an exclusion keyword in the lower-cased text makes the filter answer
\* False even when inclusion keywords are present; without an exclusion
\* keyword the answer is True iff an inclusion keyword is present.
C1_ExclusionPrecedence ==
    "filter" \in done =>
        /\ ExclusionHit => is_relevant = FALSE
        /\ ~ExclusionHit => (is_relevant <=> InclusionHit)

C1_Witness ==
    /\ "filter" \in done
    /\ ExclusionHit /\ InclusionHit
    /\ is_relevant = FALSE

Categories ==
    {"regulatory", "pricing", "launch", "competitor", "supply_chain",
     "retail", "innovation", "trend", "macro"}

\* the rules with a keyword in the lower-cased text t
RulesHit(t) ==
    {i \in 1..Len(CATEGORY_RULES) :
        \E kw \in Range(CATEGORY_RULES[i].keywords) : Contains(t, kw)}

\* C2: the category is one of the nine, namely that of the first rule, in
\* the order regulatory, pricing, launch, competitor, supply_chain, retail,
\* innovation, trend, macro, with a keyword in the text, whatever later
\* rules match, and "trend" when no rule matches; a text with "label" or
\* "nutri-score" and "launch" is "regulatory".
C2_FirstRuleWins ==
    "category" \in done =>
        /\ category \in Categories
        /\ [i \in 1..Len(CATEGORY_RULES) |-> CATEGORY_RULES[i].cat]
             = <<"regulatory", "pricing", "launch", "competitor",
                 "supply_chain", "retail", "innovation", "trend", "macro">>
        /\ LET t    == Lower(text)
               hits == RulesHit(t)
           IN  /\ \A i \in hits :
                     (\A j \in hits : i <= j)
                         => category = CATEGORY_RULES[i].cat
               /\ hits = {} => category = "trend"
               /\ ( /\ Contains(t, "label") \/ Contains(t, "nutri-score")
                    /\ Contains(t, "launch") ) => category = "regulatory"

C2_Witness ==
    /\ "category" \in done
    /\ Contains(LowText, "nutri-score") /\ Contains(LowText, "launch")
    /\ {1, 3} \subseteq RulesHit(LowText)
    /\ category = "regulatory"

PositiveHit(r) == \E kw \in Range(REGIONS[r].keywords) : Contains(LowText, kw)
NegativeHit(r) == \E kw \in Range(REGIONS[r].negative) : Contains(LowText, kw)

\* C3: a region is keyword-matched iff one of its positive keywords and
\* none of its own negative keywords is in the text; no other region's
\* lists enter the decision.
C3_KeywordMatch ==
    "region" \in done =>
        \A r \in Range(RegionIds) :
            r \in Range(matched) <=> (PositiveHit(r) /\ ~NegativeHit(r))

\* one region blocked by its own negative keyword while another is matched
C3_Witness ==
    /\ "region" \in done
    /\ \E r \in Range(RegionIds) :
          PositiveHit(r) /\ NegativeHit(r) /\ r \notin Range(matched)
    /\ matched # <<>>

\* C4: with no keyword match the result is the declared regions of a
\* non-global feed and <<"global">> for a global feed; with a keyword match
\* it is the matched list; it is never empty.
C4_FeedFallback ==
    "region" \in done =>
        /\ (matched = <<>> /\ feed_regions # <<"global">>)
              => assigned_regions = feed_regions
        /\ (matched = <<>> /\ feed_regions = <<"global">>)
              => assigned_regions = <<"global">>
        /\ matched # <<>> => assigned_regions = matched
        /\ assigned_regions # <<>>

C4_Witness ==
    /\ "region" \in done
    /\ matched = <<>>
    /\ Len(feed_regions) > 1
    /\ assigned_regions = feed_regions

(***************************************************************************)
(* Entity and product-tag extraction (lines 260-310)                       *)
(***************************************************************************)
ENTITY_COMPANIES ==  \* "Nestle" stands for the accented name of the source
    <<"Coca-Cola", "PepsiCo", "Nestle", "Danone", "Red Bull", "Monster",
      "Celsius", "Keurig Dr Pepper", "Britvic", "Campari", "Diageo",
      "AB InBev", "Heineken", "Starbucks", "Nespresso", "Innocent", "Oatly",
      "Chobani", "Huel", "Athletic Brewing", "Fever-Tree", "San Pellegrino",
      "Rauch", "Voelkel", "Eckes-Granini", "Tropicana", "Suntory", "Asahi",
      "Kirin", "Lactalis", "Fonterra", "Aldi", "Lidl", "Tesco", "Carrefour",
      "Leclerc", "Mercadona", "Walmart", "Costco", "Target", "Kroger",
      "Rewe", "Edeka">>

ENTITY_INGREDIENTS ==
    <<"protein", "collagen", "electrolyte", "caffeine", "taurine",
      "guarana", "ginseng", "ashwagandha", "lion's mane", "adaptogens",
      "probiotic", "prebiotic", "fiber", "vitamin", "mineral", "stevia",
      "erythritol", "monk fruit", "aspartame", "sucralose", "cbd", "thc",
      "hemp">>

ENTITY_PACKAGING ==
    <<"PET", "can", "glass", "tetra pak", "carton", "pouch", "aluminum">>

ENTITY_CHANNELS ==
    <<"retail", "e-commerce", "online", "on-premise", "horeca",
      "foodservice", "convenience", "supermarket">>

PRODUCT_TAG_MAP ==
    <<
      [tag |-> "energy",
       keywords |-> <<"energy drink", "energy shot", "caffeine", "taurine",
                      "guarana">>],
      [tag |-> "hydration",
       keywords |-> <<"electrolyte", "sports drink", "hydration",
                      "isotonic">>],
      [tag |-> "protein",
       keywords |-> <<"protein drink", "protein shake", "protein water",
                      "collagen">>],
      [tag |-> "functional",
       keywords |-> <<"functional", "adaptogen", "nootropic", "probiotic",
                      "prebiotic", "gut health", "immunity">>],
      [tag |-> "sugar_free",
       keywords |-> <<"sugar free", "zero sugar", "no sugar", "diet",
                      "light">>],
      [tag |-> "juice",
       keywords |-> <<"juice", "nfc", "cold pressed", "smoothie", "nectar">>],
      [tag |-> "rtd",
       keywords |-> <<"rtd", "ready to drink", "ready-to-drink",
                      "canned cocktail">>],
      [tag |-> "carbonated",
       keywords |-> <<"carbonated", "sparkling", "soda", "fizzy", "tonic",
                      "seltzer">>],
      [tag |-> "alcohol_free",
       keywords |-> <<"non-alcoholic", "alcohol-free", "zero alcohol", "0%",
                      "alcohol free", "no-alcohol", "low-alcohol">>],
      [tag |-> "organic",
       keywords |-> <<"organic", "bio ", "biologique">>],
      [tag |-> "premium",
       keywords |-> <<"premium", "luxury", "artisan", "craft">>],
      [tag |-> "dairy_alt",
       keywords |-> <<"oat milk", "almond milk", "soy milk", "plant-based",
                      "dairy alternative">>]
    >>

\* [x for x in names if x.lower() in t]
mentioned(names, t) == SelectSeq(names, LAMBDA x : Contains(t, Lower(x)))

\* lines 298-306
extract_entities(t) ==
    Only({[companies   |-> mentioned(ENTITY_COMPANIES, low),
           brands      |-> <<>>,
           ingredients |-> mentioned(ENTITY_INGREDIENTS, low),
           packaging   |-> mentioned(ENTITY_PACKAGING, low),
           channels    |-> mentioned(ENTITY_CHANNELS, low)]
             : low \in {Lower(t)}})

\* lines 308-310
extract_product_tags(t) ==
    Only({[k \in 1..Len(hit) |-> hit[k].tag]
             : hit \in {SelectSeq(PRODUCT_TAG_MAP,
                                  LAMBDA e : AnyIn(e.keywords, Lower(t)))}})

(***************************************************************************)
(* run_pipeline, steps 3 and 4 up to the region buckets (lines 528-547)    *)
(*                                                                         *)
(* The buckets hold references to the records of relevant; a reference is  *)
(* the record's position in relevant.                                      *)
(***************************************************************************)
TextOf(a) == a.title \o " " \o a.summary

BucketTitles    == {"Juice launch", "Wien water", "Quiz"}
BucketSummaries == {"", "USA FDA recall", "price"}
\* one global feed, one single-region feed, one multi-region feed
BucketFeeds     == {ALL_FEEDS[2], ALL_FEEDS[4], ALL_FEEDS[9]}

\* what fetch_feed returns for an entry (lines 404-412)
RawItems ==
    {[title |-> t, url |-> "http://h/a", summary |-> sm, published |-> NOW,
      source |-> f.name, tier |-> f.tier, feed_regions |-> f.regions] :
        t \in BucketTitles, sm \in BucketSummaries, f \in BucketFeeds}

\* line 525
RelevantItems == {a \in RawItems : is_beverage_relevant(TextOf(a))}

RECURSIVE ListsUpTo(_, _)
ListsUpTo(S, n) ==
    IF n = 0 THEN {<<>>}
    ELSE LET shorter == ListsUpTo(S, n - 1)
         IN  shorter \cup {Append(l, x) : l \in {m \in shorter : Len(m) = n - 1},
                                          x \in S}

\* lines 530-535, for one article: the four fields are set on the item
enrich(a) ==
    [category         |-> detect_category(TextOf(a)),
     entities         |-> extract_entities(TextOf(a)),
     product_tags     |-> extract_product_tags(TextOf(a)),
     assigned_regions |-> assign_region(TextOf(a), a.feed_regions)] @@ a

\* lines 543-547: the inner loop for the article at position i, from its
\* k-th assigned region on
RECURSIVE bucket_article(_, _, _, _)
bucket_article(regs, i, k, b) ==
    IF k > Len(regs) THEN b
    ELSE IF regs[k] \in DOMAIN b.region_articles
         THEN bucket_article(regs, i, k + 1,
                 [b EXCEPT !.region_articles[regs[k]] = Append(@, i)])
         ELSE bucket_article(regs, i, k + 1,
                 [b EXCEPT !.global_articles = Append(@, i)])

\* lines 542-547: the outer loop from position i on
RECURSIVE bucket_loop(_, _, _)
bucket_loop(arts, i, b) ==
    IF i > Len(arts) THEN b
    ELSE bucket_loop(arts, i + 1,
            bucket_article(arts[i].assigned_regions, i, 1, b))

InitBucket ==
    /\ relevant \in ListsUpTo(RelevantItems, MaxRelevant)
    /\ region_articles = [r \in Range(RegionIds) |-> <<>>]
    /\ global_articles = <<>>
    /\ stage = "relevant"
    /\ idleText /\ idleRegion /\ idleScore /\ idleOut /\ idleFetch
    /\ idleRun

\* step 3
Enrich ==
    /\ stage = "relevant"
    /\ relevant' = [i \in 1..Len(relevant) |-> enrich(relevant[i])]
    /\ stage' = "enriched"
    /\ UNCHANGED <<region_articles, global_articles>>
    /\ UNCHANGED <<textVars, regionVars, scoreVars, outVars, fetchVars, runVars>>

\* step 4, lines 539-547
Bucket ==
    /\ stage = "enriched"
    /\ LET b == bucket_loop(relevant, 1,
                   [region_articles |-> [r \in Range(RegionIds) |-> <<>>],
                    global_articles |-> <<>>])
       IN  /\ region_articles' = b.region_articles
           /\ global_articles' = b.global_articles
    /\ stage' = "bucketed"
    /\ UNCHANGED relevant
    /\ UNCHANGED <<textVars, regionVars, scoreVars, outVars, fetchVars, runVars>>

NextBucket == Enrich \/ Bucket

SpecBucket == InitBucket /\ [][NextBucket]_vars

\* C5: after the bucketing every relevant article tagged "global" is in the
\* candidate list of every configured region.
C5_GlobalFanOut ==
    stage = "bucketed" =>
        \A i \in 1..Len(relevant) :
            "global" \in Range(relevant[i].assigned_regions)
                => \A r \in Range(RegionIds) : i \in Range(region_articles[r])

(***************************************************************************)
(* normalize_url (lines 364-369): urllib.parse.urlparse and urlunparse on  *)
(* URLs without whitespace or control characters                           *)
(***************************************************************************)
scheme_chars ==
    "abcdefghijklmnopqrstuvwxyzABCDEFGHIJKLMNOPQRSTUVWXYZ0123456789+-."
AsciiLetters == "abcdefghijklmnopqrstuvwxyzABCDEFGHIJKLMNOPQRSTUVWXYZ"

uses_params ==
    {"", "ftp", "hdl", "prospero", "http", "imap", "https", "shttp", "rtsp",
     "rtsps", "rtspu", "sip", "sips", "mms", "sftp", "tel"}
uses_netloc ==
    {"", "ftp", "http", "gopher", "nntp", "telnet", "imap", "wais", "file",
     "mms", "https", "shttp", "snews", "prospero", "rtsp", "rtsps", "rtspu",
     "rsync", "svn", "svn+ssh", "sftp", "nfs", "git", "git+ssh", "ws", "wss"}

\* the end of the netloc: the first of "/", "?", "#" from position 3 on
netloc_end(url) ==
    LET delims == {Find(url, c, 3) : c \in {"/", "?", "#"}} \ {0}
    IN  IF delims = {} THEN Len(url) + 1
        ELSE CHOOSE d \in delims : \A e \in delims : d <= e

\* urlsplit, last step: url.split("?", 1);
\* ok is FALSE where urlsplit raises ValueError("Invalid IPv6 URL")
urlsplit_query(scheme, netloc, url, fragment) ==
    Only({[ok       |-> Contains(netloc, "[") = Contains(netloc, "]"),
           scheme   |-> scheme,
           netloc   |-> netloc,
           path     |-> IF q > 0 THEN Take(url, q - 1) ELSE url,
           query    |-> IF q > 0 THEN Drop(url, q) ELSE "",
           fragment |-> fragment] : q \in {Find(url, "?", 1)}})

\* urlsplit, third step: url.split("#", 1)
urlsplit_fragment(scheme, netloc, url) ==
    Only({urlsplit_query(scheme, netloc,
                         IF h > 0 THEN Take(url, h - 1) ELSE url,
                         IF h > 0 THEN Drop(url, h) ELSE "")
             : h \in {Find(url, "#", 1)}})

\* urlsplit, second step: _splitnetloc when the rest starts with "//"
urlsplit_netloc(scheme, url) ==
    LET hasNet == Take(url, 2) = "//"
    IN  Only({urlsplit_fragment(scheme,
                                IF hasNet THEN SubSeq(url, 3, delim - 1) ELSE "",
                                IF hasNet THEN Drop(url, delim - 1) ELSE url)
                 : delim \in {netloc_end(url)}})

\* urlsplit, first step: the scheme before the first ":" at position i
urlsplit_scheme(url, i) ==
    Only({urlsplit_netloc(IF hasScheme THEN Lower(Take(url, i - 1)) ELSE "",
                          IF hasScheme THEN Drop(url, i) ELSE url)
             : hasScheme \in
                 {/\ i > 1
                  /\ Contains(AsciiLetters, SubSeq(url, 1, 1))
                  /\ \A k \in 1..(i - 1) :
                         Contains(scheme_chars, SubSeq(url, k, k))}})

urlsplit(url) == Only({urlsplit_scheme(url, i) : i \in {Find(url, ":", 1)}})

\* _splitparams: the position of the ";" that starts the params, 0 if none
params_at(url) ==
    IF Contains(url, "/") THEN Find(url, ";", RFind(url, "/"))
    ELSE Find(url, ";", 1)

\* urlparse, after urlsplit has returned sp
urlparse_params(sp) ==
    LET i == IF sp.scheme \in uses_params /\ Contains(sp.path, ";")
             THEN params_at(sp.path) ELSE 0
    IN  [ok       |-> sp.ok,
         scheme   |-> sp.scheme,
         netloc   |-> sp.netloc,
         path     |-> IF i > 0 THEN Take(sp.path, i - 1) ELSE sp.path,
         params   |-> IF i > 0 THEN Drop(sp.path, i) ELSE "",
         query    |-> sp.query,
         fragment |-> sp.fragment]

urlparse(url) == Only({urlparse_params(sp) : sp \in {urlsplit(url)}})

\* urlunparse((scheme, netloc, path, "", "", ""))
urlunparse(scheme, netloc, path) ==
    LET u1 == IF \/ netloc # ""
                 \/ scheme # "" /\ scheme \in uses_netloc /\ Take(path, 2) # "//"
              THEN "//" \o netloc \o
                   (IF path # "" /\ Take(path, 1) # "/" THEN "/" \o path
                    ELSE path)
              ELSE path
    IN  IF scheme # "" THEN scheme \o ":" \o u1 ELSE u1

\* the normalisation without the rstrip("/") of the path
normalize_url_KeepSlash(url) ==
    Only({IF p.ok THEN urlunparse(p.scheme, p.netloc, p.path) ELSE url
             : p \in {urlparse(url)}})

normalize_url(url) ==
    Only({IF p.ok THEN urlunparse(p.scheme, p.netloc, RStrip(p.path, "/"))
          ELSE url
             : p \in {urlparse(url)}})

(***************************************************************************)
(* difflib.SequenceMatcher(None, a, b).ratio() for strings shorter than    *)
(* 200 characters (no junk, no popular elements)                           *)
(***************************************************************************)
SetMax(S) == CHOOSE x \in S : \A y \in S : x >= y
SetMin(S) == CHOOSE x \in S : \A y \in S : x <= y

\* find_longest_match in a[alo..ahi], b[blo..bhi]: the longest common
\* block, then the one starting earliest in a, then earliest in b
longest_at(a, b, blo, bhi, i, k) ==
    <<i, SetMin({y \in blo..(bhi - k + 1) :
                    SubSeq(a, i, i + k - 1) = SubSeq(b, y, y + k - 1)}), k>>

longest_of(a, b, alo, ahi, blo, bhi, k) ==
    Only({longest_at(a, b, blo, bhi, i, k)
             : i \in {SetMin({x \in alo..(ahi - k + 1) :
                                \E j \in blo..(bhi - k + 1) :
                                    SubSeq(a, x, x + k - 1)
                                        = SubSeq(b, j, j + k - 1)})}})

find_longest_match(a, b, alo, ahi, blo, bhi) ==
    Only({IF sizes = {} THEN <<alo, blo, 0>>
          ELSE longest_of(a, b, alo, ahi, blo, bhi, SetMax(sizes))
             : sizes \in
                 {{k \in 1..Min(ahi - alo + 1, bhi - blo + 1) :
                      \E i \in alo..(ahi - k + 1) :
                          \E j \in blo..(bhi - k + 1) :
                              SubSeq(a, i, i + k - 1)
                                  = SubSeq(b, j, j + k - 1)}}})

\* sum of the sizes of get_matching_blocks()
RECURSIVE matches(_, _, _, _, _, _)
matches(a, b, alo, ahi, blo, bhi) ==
    IF alo > ahi \/ blo > bhi THEN 0
    ELSE Only({IF m[3] = 0 THEN 0
               ELSE m[3] + matches(a, b, alo, m[1] - 1, blo, m[2] - 1)
                         + matches(a, b, m[1] + m[3], ahi, m[2] + m[3], bhi)
                  : m \in {find_longest_match(a, b, alo, ahi, blo, bhi)}})

\* ratio() > 0.8, where ratio() = 2.0 * matches / (len(a) + len(b)), and
\* 1.0 when both are empty
ratio_gt_08(a, b) ==
    Only({IF Len(s) + Len(t) = 0 THEN TRUE
          ELSE 10 * matches(s, t, 1, Len(s), 1, Len(t)) > 4 * (Len(s) + Len(t))
             : s \in {a}, t \in {b}})

(***************************************************************************)
(* deduplicate (lines 441-466); the result is the list of the positions    *)
(* of the kept articles                                                    *)
(***************************************************************************)
\* the loop that records a URL only when the article is kept
RECURSIVE dedup_loop_UrlOnAccept(_, _, _, _, _)
dedup_loop_UrlOnAccept(arts, i, seen_urls, seen_titles, uniq) ==
    IF i > Len(arts) THEN uniq
    ELSE Only({IF nurl \in seen_urls
               THEN dedup_loop_UrlOnAccept(arts, i + 1, seen_urls,
                                           seen_titles, uniq)
               ELSE IF \E k \in 1..Len(seen_titles) :
                          ratio_gt_08(title_lower, seen_titles[k])
               THEN dedup_loop_UrlOnAccept(arts, i + 1, seen_urls,
                                           seen_titles, uniq)
               ELSE dedup_loop_UrlOnAccept(arts, i + 1,
                                           seen_urls \cup {nurl},
                                           Append(seen_titles, title_lower),
                                           Append(uniq, i))
                  : nurl \in {normalize_url(arts[i].url)},
                    title_lower \in {Strip(Lower(arts[i].title))}})

\* the loop from position i on
RECURSIVE dedup_loop(_, _, _, _, _)
dedup_loop(arts, i, seen_urls, seen_titles, uniq) ==
    IF i > Len(arts) THEN uniq
    ELSE Only({IF nurl \in seen_urls
               THEN dedup_loop(arts, i + 1, seen_urls, seen_titles, uniq)
               ELSE IF \E k \in 1..Len(seen_titles) :
                          ratio_gt_08(title_lower, seen_titles[k])
               THEN dedup_loop(arts, i + 1, seen_urls \cup {nurl},
                               seen_titles, uniq)
               ELSE dedup_loop(arts, i + 1, seen_urls \cup {nurl},
                               Append(seen_titles, title_lower),
                               Append(uniq, i))
                  : nurl \in {normalize_url(arts[i].url)},
                    title_lower \in {Strip(Lower(arts[i].title))}})

\* the result with the article kept last put first
deduplicate_NewestFirst(arts) ==
    Only({[k \in 1..Len(u) |-> u[Len(u) + 1 - k]]
             : u \in {dedup_loop(arts, 1, {}, <<>>, <<>>)}})

deduplicate(arts) ==
    Only({dedup_loop(list, 1, {}, <<>>, <<>>) : list \in {arts}})


(***************************************************************************)
(* One region's bucket given to deduplicate (line 555)                     *)
(***************************************************************************)
DedupUrls ==
    {"http://h/a", "http://h/a?utm_source=x", "http://h/a/#f", "http://h/b",
     "http://[h/a"}
DedupTitles == {"aaabaa", "abaaba", "Aaabaa"}
DedupPool   == {[url |-> u, title |-> t] : u \in DedupUrls, t \in DedupTitles}

InitDedup ==
    /\ articles \in ListsUpTo(DedupPool, MaxDedup)
    /\ unique = <<>>
    /\ in_window = <<>>
    /\ used_fallback = FALSE
    /\ phase = "bucketed"
    /\ idleText /\ idleBucket /\ idleScore /\ idleOut /\ idleFetch
    /\ idleRun

\* line 555
Deduplicate ==
    /\ phase = "bucketed"
    /\ unique' = deduplicate(articles)
    /\ phase' = "deduped"
    /\ UNCHANGED <<articles, in_window, used_fallback>>
    /\ UNCHANGED <<textVars, bucketVars, scoreVars, outVars, fetchVars, runVars>>

NextDedup == Deduplicate

SpecDedup == InitDedup /\ [][NextDedup]_vars

NUrl(i)       == normalize_url(articles[i].url)
TitleLower(i) == Lower(articles[i].title)
Kept          == Range(unique)

\* C6: any two distinct articles of the list deduplicate returns have
\* different normalized URLs and lower-cased titles whose similarity ratio
\* is at most 0.8.
C6_SurvivorsDistinct ==
    phase = "deduped" =>
        \A i \in Kept : \A j \in Kept \ {i} :
            /\ NUrl(i) # NUrl(j)
            /\ ~ratio_gt_08(TitleLower(i), TitleLower(j))

\* two URLs that urlparse accepts, with the same scheme, host and path up
\* to a trailing slash, which differ at most in query string and fragment
SameUpToQuery(u, v) ==
    LET p == urlparse(u)
        q == urlparse(v)
    IN  /\ p.ok /\ q.ok
        /\ p.scheme = q.scheme /\ p.netloc = q.netloc /\ p.params = q.params
        /\ \/ p.path = q.path
           \/ p.path = q.path \o "/"
           \/ q.path = p.path \o "/"

\* C7 as claimed: of two articles of a bucket whose URLs differ only in
\* query string, fragment or a trailing slash, the normalized URLs are equal
\* and deduplicate keeps exactly one, the one that arrived first.
C7_KeepsExactlyTheFirst ==
    phase = "deduped" =>
        \A i \in 1..Len(articles) : \A j \in (i + 1)..Len(articles) :
            SameUpToQuery(articles[i].url, articles[j].url)
                => /\ NUrl(i) = NUrl(j)
                   /\ i \in Kept
                   /\ j \notin Kept

\* no article before position i has the normalized URL of article i or a
\* title that the title of article i matches with ratio above 0.8
NoEarlierDuplicate(i) ==
    \A k \in 1..(i - 1) :
        /\ NUrl(k) # NUrl(i)
        /\ ~ratio_gt_08(Strip(TitleLower(i)), Strip(TitleLower(k)))

\* C7 as amended: the normalized URLs of such a pair are equal, the later
\* article is never kept, and the earlier one is kept whenever no article
\* before it is a duplicate of it; so at most one of the two is kept.
C7_LaterNeverKept ==
    phase = "deduped" =>
        \A i \in 1..Len(articles) : \A j \in (i + 1)..Len(articles) :
            SameUpToQuery(articles[i].url, articles[j].url)
                => /\ NUrl(i) = NUrl(j)
                   /\ j \notin Kept
                   /\ NoEarlierDuplicate(i) => i \in Kept

\* the pair of the scenario, told apart only by the query string, with
\* titles that are no near-duplicates: the first is kept, the second is not
C7_Witness ==
    /\ phase = "deduped"
    /\ \E i \in 1..Len(articles) : \E j \in (i + 1)..Len(articles) :
          /\ articles[i].url = "http://h/a"
          /\ articles[j].url = "http://h/a?utm_source=x"
          /\ ~ratio_gt_08(TitleLower(j), TitleLower(i))
          /\ i \in Kept
          /\ j \notin Kept

(***************************************************************************)
(* deduplicate on buckets with a title unlike the others, and the same     *)
(* function applied to its own result                                      *)
(***************************************************************************)
PassUrls   == {"http://h/a", "http://h/a?utm_source=x", "http://h/b"}
PassTitles == {"aaabaa", "abaaba", "Aaabaa", "juice"}
PassPool   == {[url |-> u, title |-> t] : u \in PassUrls, t \in PassTitles}

InitPasses ==
    /\ articles \in ListsUpTo(PassPool, MaxDedup)
    /\ unique = <<>>
    /\ in_window = <<>>
    /\ used_fallback = FALSE
    /\ phase = "bucketed"
    /\ idleText /\ idleBucket /\ idleScore /\ idleOut /\ idleFetch
    /\ idleRun

\* deduplicate(deduplicate(articles)): the second call gets the list the
\* first returned; in_window holds its result as positions in articles
DeduplicateAgain ==
    /\ phase = "deduped"
    /\ in_window' =
          Only({[k \in 1..Len(again) |-> unique[again[k]]]
                   : again \in {deduplicate([k \in 1..Len(unique) |->
                                               articles[unique[k]]])}})
    /\ phase' = "deduped twice"
    /\ UNCHANGED <<articles, unique, used_fallback>>
    /\ UNCHANGED <<textVars, bucketVars, scoreVars, outVars, fetchVars, runVars>>

NextPasses == Deduplicate \/ DeduplicateAgain

SpecPasses == InitPasses /\ [][NextPasses]_vars

\* first pass of the two: the positions whose normalized URL is not that of
\* an earlier position kept by this pass
RECURSIVE url_pass(_, _, _)
url_pass(arts, i, kept) ==
    IF i > Len(arts) THEN kept
    ELSE IF \E k \in 1..Len(kept) :
               normalize_url(arts[kept[k]].url) = normalize_url(arts[i].url)
         THEN url_pass(arts, i + 1, kept)
         ELSE url_pass(arts, i + 1, Append(kept, i))

\* second pass: of the positions idx, those whose title has no ratio above
\* 0.8 with the title of an earlier position kept by this pass
RECURSIVE title_pass(_, _, _, _)
title_pass(arts, idx, n, kept) ==
    IF n > Len(idx) THEN kept
    ELSE IF \E k \in 1..Len(kept) :
               ratio_gt_08(Strip(Lower(arts[idx[n]].title)),
                           Strip(Lower(arts[kept[k]].title)))
         THEN title_pass(arts, idx, n + 1, kept)
         ELSE title_pass(arts, idx, n + 1, Append(kept, idx[n]))

\* C24: the list deduplicate returns is the result of the URL pass followed
\* by the title pass over the survivors of the URL pass.
C24_TwoPasses ==
    phase # "bucketed" =>
        unique = title_pass(articles, url_pass(articles, 1, <<>>), 1, <<>>)

\* an article that passes the URL pass, is removed by the title pass, and
\* whose URL removes a later article
C24_Witness ==
    /\ phase = "deduped"
    /\ Len(articles) = 3
    /\ unique = <<1>>
    /\ NUrl(2) # NUrl(1)
    /\ NUrl(3) = NUrl(2)
    /\ ~ratio_gt_08(Strip(TitleLower(3)), Strip(TitleLower(1)))

C30_Idempotent ==
    /\ phase # "bucketed" =>
          /\ \A k \in 1..(Len(unique) - 1) : unique[k] < unique[k + 1]
          /\ Range(unique) \subseteq 1..Len(articles)
          /\ articles # <<>> => unique # <<>> /\ unique[1] = 1
    /\ phase = "deduped twice" => in_window = unique

\* three articles of which the second is dropped, deduplicated twice
C30_Witness ==
    /\ phase = "deduped twice"
    /\ Len(articles) = 3
    /\ unique = <<1, 3>>
    /\ in_window = <<1, 3>>

(***************************************************************************)
(* Time window (lines 557-564)                                             *)
(***************************************************************************)
\* [a for a in arts if a["published"] >= cutoff], as positions in arts
published_since(arts, cutoff) ==
    SelectSeq([i \in 1..Len(arts) |-> i],
              LAMBDA i : arts[i].published >= cutoff)

\* the window with the threshold test of the primary count off by one
apply_window_AtMostMin(arts) ==
    LET primary == published_since(arts, CUTOFF)
    IN  IF Len(primary) <= MIN_ITEMS
        THEN [in_window     |-> published_since(arts, FALLBACK_CUTOFF),
              used_fallback |-> TRUE]
        ELSE [in_window |-> primary, used_fallback |-> FALSE]

\* lines 558-564
apply_window(arts) ==
    LET primary == published_since(arts, CUTOFF)
    IN  IF Len(primary) < MIN_ITEMS
        THEN [in_window     |-> published_since(arts, FALLBACK_CUTOFF),
              used_fallback |-> TRUE]
        ELSE [in_window |-> primary, used_fallback |-> FALSE]

\* publish times at the edge of the primary window, at the edge of the
\* fallback window and just outside it
WindowPubs == {CUTOFF, FALLBACK_CUTOFF, FALLBACK_CUTOFF - 1}

\* the deduplicated candidates of a region, reduced to the field the
\* window reads
InitWindow ==
    /\ articles \in ListsUpTo({[published |-> t] : t \in WindowPubs},
                              MaxWindow)
    /\ unique = [i \in 1..Len(articles) |-> i]
    /\ in_window = <<>>
    /\ used_fallback = FALSE
    /\ phase = "deduped"
    /\ idleText /\ idleBucket /\ idleScore /\ idleOut /\ idleFetch
    /\ idleRun

Window ==
    /\ phase = "deduped"
    /\ LET w == apply_window(articles)
       IN  /\ in_window' = w.in_window
           /\ used_fallback' = w.used_fallback
    /\ phase' = "windowed"
    /\ UNCHANGED <<articles, unique>>
    /\ UNCHANGED <<textVars, bucketVars, scoreVars, outVars, fetchVars, runVars>>

NextWindow == Window

SpecWindow == InitWindow /\ [][NextWindow]_vars

InPrimary  == {i \in 1..Len(articles) : articles[i].published >= CUTOFF}
InFallback == {i \in 1..Len(articles) :
                  articles[i].published >= FALLBACK_CUTOFF}

\* C8: the fallback flag is set iff fewer than 10 candidates lie in the
\* 28-day window; then the survivors are exactly the candidates of the
\* 42-day window, a superset of the primary set; otherwise they are exactly
\* the candidates of the 28-day window.
C8_WindowFallback ==
    phase = "windowed" =>
        /\ used_fallback <=> Cardinality(InPrimary) < 10
        /\ Cardinality(Range(in_window)) = Len(in_window)
        /\ used_fallback =>
              /\ Range(in_window) = InFallback
              /\ InPrimary \subseteq Range(in_window)
              /\ Len(in_window) >= Cardinality(InPrimary)
        /\ ~used_fallback => Range(in_window) = InPrimary

\* nine candidates in the primary window, more in the fallback window and
\* one outside both
C8_Witness ==
    /\ phase = "windowed"
    /\ used_fallback
    /\ Cardinality(InPrimary) = 9
    /\ Cardinality(InFallback) > 9
    /\ Len(in_window) < Len(articles)

(***************************************************************************)
(* score_article (lines 472-491).  Weights are in hundredths, recency in   *)
(* units of 1e-7, the weighted sum in units of 1e-8, the score in 1e-4.    *)
(***************************************************************************)
CATEGORY_PRIORITY ==
    [c \in Categories |->
        CASE c = "regulatory" -> 100 [] c = "pricing" -> 90
          [] c = "launch" -> 85 [] c = "competitor" -> 80
          [] c = "supply_chain" -> 70 [] c = "retail" -> 65
          [] c = "innovation" -> 60 [] c = "trend" -> 50
          [] c = "macro" -> 40]

SOURCE_RELIABILITY ==
    [t \in 1..4 |-> CASE t = 1 -> 100 [] t = 2 -> 95 [] t = 3 -> 70
                      [] t = 4 -> 50]

\* {"high": 1.0, "medium": 0.6, "low": 0.3}.get(s, 0.3)
region_score(s) ==
    CASE s = "high" -> 100 [] s = "medium" -> 60 [] OTHER -> 30

\* math.exp(-0.05 * age / 1440) to seven decimals, at the ages (in minutes)
\* of the model's publish times and their negatives
ExpTable ==
    {[age |-> -1440, e7 |-> 10512711],
     [age |-> -1, e7 |-> 10000347],
     [age |-> 0, e7 |-> 10000000],
     [age |-> 1, e7 |-> 9999653],
     [age |-> 1440, e7 |-> 9512294],
     [age |-> 40320, e7 |-> 2465970],
     [age |-> 59040, e7 |-> 1287349],
     [age |-> 60480, e7 |-> 1224564]}

exp_decay(age) == (CHOOSE r \in ExpTable : r.age = age).e7

\* round(x, 4) of x = total * 1e-8: round half to even
round4(total) ==
    LET q == total \div 10000
        r == total % 10000
    IN  IF r > 5000 \/ (r = 5000 /\ q % 2 = 1) THEN q + 1 ELSE q

\* the score without the max(0, ...) on the age
score_article_NoClamp(a, region_match_strength) ==
    LET recency      == exp_decay(NOW - a.published)
        cat_priority == IF a.category \in DOMAIN CATEGORY_PRIORITY
                        THEN CATEGORY_PRIORITY[a.category] ELSE 50
        source_rel   == IF a.tier \in DOMAIN SOURCE_RELIABILITY
                        THEN SOURCE_RELIABILITY[a.tier] ELSE 50
    IN  round4(5 * recency
               + 10000 * (25 * region_score(region_match_strength)
                          + 15 * cat_priority + 10 * source_rel))

\* the score with the recency term constant
score_article_NoDecay(a, region_match_strength) ==
    LET recency      == exp_decay(0)
        cat_priority == IF a.category \in DOMAIN CATEGORY_PRIORITY
                        THEN CATEGORY_PRIORITY[a.category] ELSE 50
        source_rel   == IF a.tier \in DOMAIN SOURCE_RELIABILITY
                        THEN SOURCE_RELIABILITY[a.tier] ELSE 50
    IN  round4(5 * recency
               + 10000 * (25 * region_score(region_match_strength)
                          + 15 * cat_priority + 10 * source_rel))


score_article(a, region_match_strength) ==
    LET age          == Max(0, NOW - a.published)
        recency      == exp_decay(age)
        cat_priority == IF a.category \in DOMAIN CATEGORY_PRIORITY
                        THEN CATEGORY_PRIORITY[a.category] ELSE 50
        source_rel   == IF a.tier \in DOMAIN SOURCE_RELIABILITY
                        THEN SOURCE_RELIABILITY[a.tier] ELSE 50
    IN  round4(5 * recency
               + 10000 * (25 * region_score(region_match_strength)
                          + 15 * cat_priority + 10 * source_rel))

\* publish times that pass the window of lines 558-563: in the future, now,
\* a minute and a day ago, and at the edges of the two windows
ScorePubs ==
    {MinutesPerDay, 1, NOW, -1, -MinutesPerDay, CUTOFF,
     FALLBACK_CUTOFF + MinutesPerDay, FALLBACK_CUTOFF}

\* the nine categories and a value outside the table
ScoreCategories == Categories \cup {"other"}
\* the four tiers and a value outside the table
ScoreTiers      == 1..5
\* the three strengths and a value outside the table
ScoreStrengths  == {"high", "medium", "low", "none"}

InitScore ==
    /\ article \in [published : ScorePubs, category : ScoreCategories,
                    tier : ScoreTiers]
    /\ strength \in ScoreStrengths
    /\ scores = <<>>
    /\ idleText /\ idleBucket /\ idleRegion /\ idleOut /\ idleFetch
    /\ idleRun

\* line 576: one call, recorded with its arguments
ScoreArticle ==
    /\ Len(scores) < MaxCalls
    /\ \A k \in 1..Len(scores) : scores[k].published # article.published
    /\ scores' = Append(scores,
                    [published |-> article.published,
                     category  |-> article.category,
                     tier      |-> article.tier,
                     strength  |-> strength,
                     score     |-> score_article(article, strength)])
    /\ UNCHANGED <<article, strength>>
    /\ UNCHANGED <<textVars, bucketVars, regionVars, outVars, fetchVars, runVars>>

\* the loop of line 567 moves on to an article of the same category and
\* tier with another publish time
NextArticle ==
    /\ Len(scores) < MaxCalls
    /\ \E k \in 1..Len(scores) : scores[k].published = article.published
    /\ \E t \in ScorePubs :
          /\ \A k \in 1..Len(scores) : scores[k].published # t
          /\ article' = [article EXCEPT !.published = t]
    /\ UNCHANGED <<strength, scores>>
    /\ UNCHANGED <<textVars, bucketVars, regionVars, outVars, fetchVars, runVars>>

NextScore == ScoreArticle \/ NextArticle

SpecScore == InitScore /\ [][NextScore]_vars

\* C9: every score lies in [0,1] (0..10000 in units of 1e-4), for publish
\* times in the past and in the future and for known and unknown category,
\* tier and strength.
C9_ScoreRange ==
    \A k \in 1..Len(scores) : scores[k].score >= 0 /\ scores[k].score <= 10000

\* an article dated after the run, with the top weights, scores exactly 1
C9_Witness ==
    \E k \in 1..Len(scores) :
        /\ scores[k].published > NOW
        /\ scores[k].strength = "high"
        /\ scores[k].category = "regulatory"
        /\ scores[k].tier = 1
        /\ scores[k].score = 10000

SameWeights(x, y) ==
    /\ x.strength = y.strength
    /\ x.category = y.category
    /\ x.tier = y.tier

\* C10 as claimed: of two articles with the same strength, category and
\* tier the one published later has the strictly greater score.
C10_StrictlyDecreasing ==
    \A i \in 1..Len(scores) : \A j \in 1..Len(scores) :
        (SameWeights(scores[i], scores[j])
            /\ scores[i].published > scores[j].published)
                => scores[i].score > scores[j].score

\* C10 as amended: the one published later never has the smaller score, and
\* has the strictly greater score when neither is dated after the run, they
\* are a day or more apart and the older is inside the 42-day window.
C10_NonIncreasing ==
    \A i \in 1..Len(scores) : \A j \in 1..Len(scores) :
        (SameWeights(scores[i], scores[j])
            /\ scores[i].published > scores[j].published)
                => /\ scores[i].score >= scores[j].score
                   /\ ( /\ scores[i].published <= NOW
                        /\ scores[i].published - scores[j].published
                              >= MinutesPerDay
                        /\ scores[j].published >= FALLBACK_CUTOFF )
                          => scores[i].score > scores[j].score

\* two scored articles a day apart inside the window, and the later one
\* scores higher
C10_Witness ==
    \E i \in 1..Len(scores) : \E j \in 1..Len(scores) :
        /\ SameWeights(scores[i], scores[j])
        /\ scores[i].published = NOW
        /\ scores[j].published = -MinutesPerDay
        /\ scores[i].score > scores[j].score

(***************************************************************************)
(* One iteration of the region loop of run_pipeline (lines 553-618), from  *)
(* the deduplicated candidates to the health record                        *)
(***************************************************************************)
OUTPUT_CAP == 50

\* lines 572-573: the strength of the match of a text with region r
region_match(t, r) ==
    LET strong == Cardinality({k \in 1..Len(REGIONS[r].keywords) :
                                  Contains(Lower(t), REGIONS[r].keywords[k])})
    IN  IF strong >= 2 THEN "high" ELSE IF strong >= 1 THEN "medium" ELSE "low"

\* the label without the test of the strength
confidence_IgnoreStrength(published, s, fallback) ==
    IF published >= CUTOFF THEN "high"
    ELSE IF fallback THEN "low" ELSE "medium"

\* line 575
confidence(published, s, fallback) ==
    IF published >= CUTOFF /\ s \in {"high", "medium"} THEN "high"
    ELSE IF fallback THEN "low" ELSE "medium"

\* the scoring that leaves an article scored for an earlier region as it is
score_in_region_FirstRegionWins(a, r, fallback) ==
    IF "score" \in DOMAIN a THEN a
    ELSE Only({[region_match |-> s,
                confidence   |-> confidence(a.published, s, fallback),
                score        |-> score_article(a, s)] @@ a
                  : s \in {region_match(TextOf(a), r)}})

\* lines 567-578 for one article: the three fields the claims read among
\* those the scoring loop sets on the article
score_in_region(a, r, fallback) ==
    Only({[region_match |-> s,
           confidence   |-> confidence(a.published, s, fallback),
           score        |-> score_article(a, s)] @@ a
             : s \in {region_match(TextOf(a), r)}})

\* line 580: list.sort(key=score, reverse=True) on a list of positions of
\* arts; the sort is stable, so the positions with the highest score come
\* first in their present order, followed by the rest sorted the same way
RECURSIVE sort_by_score(_, _)
sort_by_score(arts, idx) ==
    IF idx = <<>> THEN <<>>
    ELSE Only({SelectSeq(idx, LAMBDA i : arts[i].score = top)
                 \o sort_by_score(arts,
                        Only({x : x \in {SelectSeq(idx, LAMBDA i :
                                                arts[i].score < top)}}))
                 : top \in {SetMax({arts[idx[k]].score : k \in 1..Len(idx)})}})

\* lines 585-599: one output article, without the two texts taken from the
\* templates of the category
format_article(a, r) ==
    [title |-> a.title, url |-> a.url, source |-> a.source,
     published |-> a.published, country_region |-> r,
     category |-> a.category, entities |-> a.entities,
     product_tags |-> a.product_tags, summary |-> a.summary,
     confidence |-> a.confidence, score |-> a.score]

\* the output without the slice
format_output_NoCap(arts, idx, r) ==
    [k \in 1..Len(idx) |-> format_article(arts[idx[k]], r)]

\* lines 583-599: in_window[:50], formatted
format_output(arts, idx, r) ==
    [k \in 1..Min(Len(idx), OUTPUT_CAP) |-> format_article(arts[idx[k]], r)]

\* the notes without the note of the fallback
health_notes_NoFallbackNote(arts, out, fallback) ==
    IF Len(out) < MIN_ITEMS
    THEN <<"Below " \o ToString(MIN_ITEMS) \o "-item threshold: "
             \o ToString(Len(out)) \o " items">>
    ELSE <<>>

\* lines 604-608
health_notes(arts, out, fallback) ==
    (IF fallback
     THEN <<"Expanded to " \o ToString(FALLBACK_DAYS) \o "-day window (only "
              \o ToString(Len(published_since(arts, CUTOFF))) \o " items in "
              \o ToString(WINDOW_DAYS) \o "d)">>
     ELSE <<>>)
    \o (IF Len(out) < MIN_ITEMS
        THEN <<"Below " \o ToString(MIN_ITEMS) \o "-item threshold: "
                 \o ToString(Len(out)) \o " items">>
        ELSE <<>>)

\* the status without the test of the fallback flag
health_status_NoFallback(n, fallback) ==
    IF n = 0 THEN "error" ELSE IF n < MIN_ITEMS THEN "warning" ELSE "ok"

\* line 612
health_status(n, fallback) ==
    IF n = 0 THEN "error"
    ELSE IF n < MIN_ITEMS \/ fallback THEN "warning" ELSE "ok"

\* lines 610-618
health_record(arts, idx, out, fallback, stats) ==
    [status         |-> health_status(Len(out), fallback),
     items          |-> Len(out),
     sources_ok     |-> stats.ok,
     sources_failed |-> stats.failed,
     last_item_date |-> IF idx = <<>> THEN "None"
                        ELSE SetMax({arts[idx[k]].published : k \in 1..Len(idx)}),
     notes          |-> health_notes(arts, out, fallback)]

\* the candidates of the region: a batch is a run of articles of one feed
\* with the same summary and publish time; titles and urls are numbered, so
\* that deduplicate keeps every article
RegionSummaries == {"USA FDA recall", "Wien water", "Juice launch"}
RegionPubs      == {-MinutesPerDay, CUTOFF, FALLBACK_CUTOFF, FALLBACK_CUTOFF - 1}
BatchSizes      == {0, 4, 11, MaxBatch}
Batches         == [summary : RegionSummaries, published : RegionPubs,
                    size : BatchSizes]

\* the enriched articles of batch b, numbered from first on; no keyword of
\* the tables occurs in a title made of digits, so the fields that enrich
\* sets are those of the batch's first article
batch_articles(b, first) ==
    Only({[i \in 1..b.size |->
              [title |-> ToString(first + i - 1),
               url   |-> "http://h/" \o ToString(first + i - 1)] @@ e]
             : e \in {enrich([title        |-> ToString(first),
                              url          |-> "http://h/" \o ToString(first),
                              summary      |-> b.summary,
                              published    |-> b.published,
                              source       |-> ALL_FEEDS[1].name,
                              tier         |-> ALL_FEEDS[1].tier,
                              feed_regions |-> ALL_FEEDS[1].regions])}})

InitRegion ==
    /\ cur_rid \in {"usa", "austria"}
    /\ \E b1 \in Batches : \E b2 \in Batches :
          /\ b1.size = 0 => b2.size = 0
          /\ b1.size = 0 => b1.summary = "Juice launch" /\ b1.published = CUTOFF
          /\ b2.size = 0 => b2.summary = "Juice launch" /\ b2.published = CUTOFF
          /\ articles = batch_articles(b1, 1) \o batch_articles(b2, b1.size + 1)
    /\ unique = [i \in 1..Len(articles) |-> i]
    /\ in_window = <<>>
    /\ used_fallback = FALSE
    /\ phase = "deduped"
    /\ formatted = <<>>
    /\ region_news = <<>>
    /\ health = <<>>
    /\ idleText /\ idleBucket /\ idleScore /\ idleFetch /\ idleRun

\* lines 567-578
ScoreWindow ==
    /\ phase = "windowed"
    /\ articles' = [i \in 1..Len(articles) |->
                      IF i \in Range(in_window)
                      THEN score_in_region(articles[i], cur_rid, used_fallback)
                      ELSE articles[i]]
    /\ phase' = "scored"
    /\ UNCHANGED <<unique, in_window, used_fallback>>
    /\ UNCHANGED <<textVars, bucketVars, scoreVars, outVars, fetchVars, runVars>>

\* line 580
SortWindow ==
    /\ phase = "scored"
    /\ in_window' = sort_by_score(articles, in_window)
    /\ phase' = "sorted"
    /\ UNCHANGED <<articles, unique, used_fallback>>
    /\ UNCHANGED <<textVars, bucketVars, scoreVars, outVars, fetchVars, runVars>>

\* lines 583-601
Format ==
    /\ phase = "sorted"
    /\ formatted' = format_output(articles, in_window, cur_rid)
    /\ region_news' = (cur_rid :> formatted') @@ region_news
    /\ phase' = "formatted"
    /\ UNCHANGED <<cur_rid, health>>
    /\ UNCHANGED <<articles, unique, in_window, used_fallback>>
    /\ UNCHANGED <<textVars, bucketVars, scoreVars, fetchVars, runVars>>

\* lines 604-618
Health ==
    /\ phase = "formatted"
    /\ health' = (cur_rid :> health_record(articles, in_window, formatted,
                                           used_fallback, source_stats))
                    @@ health
    /\ phase' = "reported"
    /\ UNCHANGED <<cur_rid, formatted, region_news>>
    /\ UNCHANGED <<articles, unique, in_window, used_fallback>>
    /\ UNCHANGED <<textVars, bucketVars, scoreVars, fetchVars, runVars>>

NextRegion == Window \/ ScoreWindow \/ SortWindow \/ Format \/ Health

SpecRegion == InitRegion /\ [][NextRegion]_vars

\* the strength, of an output article, that the scoring loop recorded
StrengthOf(k) == articles[in_window[k]].region_match
StrengthRank(s) == CASE s = "high" -> 1 [] s = "medium" -> 2 [] OTHER -> 3

\* C11: in the output list of a region all articles of strength "high" come
\* before all of strength "medium", which come before all of strength "low",
\* and within one strength the scores do not increase.  The order is a
\* lexicographic one, so it holds of the list when it holds of every two
\* neighbours.
C11_StrengthThenScore ==
    phase \in {"formatted", "reported"} =>
        \A k \in 1..(Len(formatted) - 1) :
            \/ StrengthRank(StrengthOf(k)) < StrengthRank(StrengthOf(k + 1))
            \/ /\ StrengthOf(k) = StrengthOf(k + 1)
               /\ formatted[k].score >= formatted[k + 1].score

\* C12: the output list of a region holds at most 50 articles; when more
\* than 50 candidates survive the window it is the first 50 of the list as
\* the run ordered it, and no article left out has a higher score than an
\* included one.
C12_OutputCap ==
    phase \in {"formatted", "reported"} =>
        /\ Len(formatted) <= OUTPUT_CAP
        /\ region_news[cur_rid] = formatted
        /\ \A k \in 1..Len(formatted) :
              formatted[k] = format_article(articles[in_window[k]], cur_rid)
        /\ Len(in_window) > OUTPUT_CAP =>
              /\ Len(formatted) = OUTPUT_CAP
              /\ \A l \in (OUTPUT_CAP + 1)..Len(in_window) :
                    articles[in_window[l]].score <= formatted[OUTPUT_CAP].score
              /\ \A k \in 1..(OUTPUT_CAP - 1) :
                    formatted[k].score >= formatted[k + 1].score

\* more than 50 survivors with different scores, the lowest left out
C12_Witness ==
    /\ phase = "reported"
    /\ Len(in_window) > OUTPUT_CAP
    /\ Len(formatted) = OUTPUT_CAP
    /\ articles[in_window[Len(in_window)]].score < formatted[1].score

\* C13: an article that survives the window of a region has confidence
\* "high" when it was published within the 28-day window and its strength
\* is not "low", otherwise "low" when the region used the fallback window,
\* otherwise "medium"; so "medium" goes only to low-strength articles of a
\* region that did not fall back.  The output carries the same label.
C13_ConfidenceLabel ==
    phase \in {"scored", "sorted", "formatted", "reported"} =>
        /\ \A i \in Range(in_window) :
              /\ articles[i].confidence =
                    IF /\ articles[i].published >= CUTOFF
                       /\ articles[i].region_match # "low"
                    THEN "high"
                    ELSE IF used_fallback THEN "low" ELSE "medium"
              /\ articles[i].confidence = "medium" =>
                    articles[i].region_match = "low" /\ ~used_fallback
        /\ \A k \in 1..Len(formatted) :
              formatted[k].confidence = articles[in_window[k]].confidence

\* an output with a "high" and a "medium" label
C13_Witness ==
    /\ phase = "reported"
    /\ \E k \in 1..Len(formatted) : formatted[k].confidence = "medium"
    /\ \E k \in 1..Len(formatted) : formatted[k].confidence = "high"

\* C14: the status of a region is "error" iff its final item count is zero,
\* otherwise "warning" iff the count is below 10 or the fallback window was
\* used, otherwise "ok"; one of the three is recorded for the region.
C14_HealthStatus ==
    phase = "reported" =>
        /\ cur_rid \in DOMAIN health
        /\ health[cur_rid].items = Len(region_news[cur_rid])
        /\ health[cur_rid].status \in {"ok", "warning", "error"}
        /\ health[cur_rid].status = "error" <=> Len(region_news[cur_rid]) = 0
        /\ Len(region_news[cur_rid]) # 0 =>
              (health[cur_rid].status = "warning"
                  <=> Len(region_news[cur_rid]) < MIN_ITEMS \/ used_fallback)

\* ten or more output articles and a warning
C14_Witness ==
    /\ phase = "reported"
    /\ Len(region_news[cur_rid]) >= MIN_ITEMS
    /\ health[cur_rid].status = "warning"

\* C15: where the fallback window was used, the notes of the health record
\* cite the 42-day window, the item count is the size of the 42-day set
\* capped at 50, and the status is not "ok".
C15_FallbackNoted ==
    phase = "reported" /\ used_fallback =>
        /\ \E n \in 1..Len(health[cur_rid].notes) :
              Contains(health[cur_rid].notes[n],
                       ToString(FALLBACK_DAYS) \o "-day window")
        /\ health[cur_rid].items =
              Min(Len(published_since(articles, FALLBACK_CUTOFF)), OUTPUT_CAP)
        /\ health[cur_rid].status # "ok"

\* 4 items inside 28 days and 15 inside 42 days: "warning" with 15 items
C15_Witness ==
    /\ phase = "reported"
    /\ Len(published_since(articles, CUTOFF)) = 4
    /\ Len(published_since(articles, FALLBACK_CUTOFF)) = 15
    /\ used_fallback
    /\ health[cur_rid].status = "warning"
    /\ health[cur_rid].items = 15

\* C26: the last_item_date of a region's health record is the latest
\* publish time among the articles of the region's output list, and is null
\* exactly when that list is empty.
C26_LastItemDate ==
    phase = "reported" =>
        health[cur_rid].last_item_date =
            IF formatted = <<>> THEN "None"
            ELSE SetMax({formatted[k].published : k \in 1..Len(formatted)})

\* C16: the health record of a region carries a region-specific item count,
\* the number of its output articles whose strength is "high".
C16_RegionSpecificCount ==
    phase = "reported" =>
        /\ "region_specific_items" \in DOMAIN health[cur_rid]
        /\ health[cur_rid].region_specific_items =
              Cardinality({k \in 1..Len(formatted) : StrengthOf(k) = "high"})

(***************************************************************************)
(* fetch_feed (lines 344-414).  An element of the parsed document is a     *)
(* record: found (FALSE for the None of a failed find), text ("" for no    *)
(* text), children (the number of child elements, which is what the truth  *)
(* value of an Element tests) and href.  An entry is a record with the     *)
(* child elements found under the plain tag names (plain) and under the    *)
(* names of the Atom namespace (atom).                                     *)
(***************************************************************************)
NoElement == [found |-> FALSE, text |-> "", children |-> 0, href |-> ""]
Leaf(t)   == [found |-> TRUE, text |-> t, children |-> 0, href |-> ""]
EntryTags == {"title", "link", "description", "content", "summary",
              "pubDate", "published", "updated"}

\* the timestamps of the model's entries that one of the formats of line 347
\* parses, with their value when the run starts at 2026-11-05T00:00:00Z
KnownDates ==
    {[text |-> "Wed, 04 Nov 2026 00:00:00 GMT", at |-> -MinutesPerDay],
     [text |-> "2026-11-04T00:00:00Z",          at |-> -MinutesPerDay],
     [text |-> "2026-10-08T00:00:00+00:00",     at |-> CUTOFF]}

\* the parser that gives a text of no known format the oldest time of the
\* model instead of NOW
parse_date_OldOnFailure(date_str) ==
    IF date_str = "" THEN NOW
    ELSE IF \E d \in KnownDates : d.text = Strip(date_str)
         THEN (CHOOSE d \in KnownDates : d.text = Strip(date_str)).at
         ELSE FALLBACK_CUTOFF - 1

\* lines 344-355
parse_date(date_str) ==
    IF date_str = "" THEN NOW
    ELSE IF \E d \in KnownDates : d.text = Strip(date_str)
         THEN (CHOOSE d \in KnownDates : d.text = Strip(date_str)).at
         ELSE NOW

\* re.sub(r"<[^>]+>", " ", s)
RECURSIVE strip_tags(_)
strip_tags(s) ==
    Only({IF i = 0 THEN s
          ELSE Only({IF j = 0 THEN s
                     ELSE IF j = i + 1
                          THEN Take(s, i) \o strip_tags(Drop(s, i))
                          ELSE Take(s, i - 1) \o " " \o strip_tags(Drop(s, j))
                        : j \in {Find(s, ">", i + 1)}})
             : i \in {Find(s, "<", 1)}})

\* lines 357-362, the branch without BeautifulSoup; on a text without
\* markup and character references both branches return the stripped text
clean_html(raw) == IF raw = "" THEN "" ELSE Strip(strip_tags(raw))

\* lines 391-393: el = item.find(tag) or item.find("atom:" + tag)
get(item, tag) ==
    Only({IF el.found /\ el.text # "" THEN Strip(el.text) ELSE ""
             : el \in {IF item.plain[tag].found /\ item.plain[tag].children > 0
                       THEN item.plain[tag] ELSE item.atom[tag]}})

\* a or b or c on strings
first_nonempty(a, b, c) == IF a # "" THEN a ELSE IF b # "" THEN b ELSE c

\* lines 395-398
entry_link(item) ==
    Only({IF link # "" THEN link
          ELSE IF item.atom["link"].found THEN item.atom["link"].href ELSE ""
             : link \in {get(item, "link")}})

\* lines 402-404
entry_desc(item) ==
    Only({IF Len(desc) > 400
          THEN Only({(IF sp = 0 THEN Take(desc, 397) ELSE Take(desc, sp - 1))
                        \o "..."  \* for the ellipsis character
                        : sp \in {RFind(Take(desc, 397), " ")}})
          ELSE desc
             : desc \in {clean_html(first_nonempty(get(item, "description"),
                                                   get(item, "content"),
                                                   get(item, "summary")))}})

\* lines 390-414 for one entry
raw_item(item, feed) ==
    [title        |-> get(item, "title"),
     url          |-> entry_link(item),
     summary      |-> entry_desc(item),
     published    |-> parse_date(first_nonempty(get(item, "pubDate"),
                                                get(item, "published"),
                                                get(item, "updated"))),
     source       |-> feed.name,
     tier         |-> feed.tier,
     feed_regions |-> feed.regions]

\* the error of a result: None, or the text of the exception
None == [is_none |-> TRUE, text |-> ""]
Message(t) == [is_none |-> FALSE, text |-> t]
\* the truth value of an error: None and "" are false
Truthy(err) == ~err.is_none /\ err.text # ""

\* lines 371-414; response is what requests.get, raise_for_status and
\* ET.fromstring give: an exception with its str(), or the <item> and the
\* Atom <entry> elements of the document
fetch_feed(feed, response) ==
    IF response.raised THEN [items |-> <<>>, err |-> Message(response.message)]
    ELSE Only({[items |-> [k \in 1..Len(found) |-> raw_item(found[k], feed)],
                err   |-> None]
                 : found \in {IF response.items # <<>> THEN response.items
                              ELSE response.entries}})

(***************************************************************************)
(* run_pipeline (lines 497-883): the fetch loop, the filter, the region    *)
(* loop, the briefings and the documents                                   *)
(***************************************************************************)
\* the feeds of the loop of line 508, in the order of the model: a global
\* feed, a feed of one region, a feed of five regions, a query feed
FeedOrder == <<2, 4, 9, 12, 1>>
RunFeeds  == [k \in 1..MaxFeeds |-> ALL_FEEDS[FeedOrder[k]]]

\* the child elements of an entry, from a record of those that exist
Children(els) ==
    [t \in EntryTags |-> IF t \in DOMAIN els THEN els[t] ELSE NoElement]
NoChildren == [t \in EntryTags |-> NoElement]

\* an <item> of an RSS document
RssItem ==
    [plain |-> Children([title       |-> Leaf("USA FDA juice recall"),
                         link        |-> Leaf("http://h/a"),
                         description |-> Leaf("German launch"),
                         pubDate     |-> Leaf("Wed, 04 Nov 2026 00:00:00 GMT")]),
     atom  |-> NoChildren]
\* <entry> elements of an Atom document: a complete one, one without
\* <title> and without a timestamp, one without <link> and with a timestamp
\* of no known format
AtomEntry ==
    [plain |-> NoChildren,
     atom  |-> Children([title   |-> Leaf("USA German Deutschland juice"),
                         link    |-> [found |-> TRUE, text |-> "",
                                      children |-> 0, href |-> "http://h/b"],
                         summary |-> Leaf("launch"),
                         updated |-> Leaf("2026-11-04T00:00:00Z")])]
AtomNoTitle ==
    [plain |-> NoChildren,
     atom  |-> Children([link      |-> [found |-> TRUE, text |-> "",
                                        children |-> 0, href |-> "http://h/c"],
                         summary   |-> Leaf("Juice launch in Wien")])]
AtomNoLink ==
    [plain |-> NoChildren,
     atom  |-> Children([title   |-> Leaf("Australian beverage"),
                         updated |-> Leaf("yesterday")])]

Raised(msg)            == [raised |-> TRUE, message |-> msg,
                           items |-> <<>>, entries |-> <<>>]
Document(its, entries) == [raised |-> FALSE, message |-> "",
                           items |-> its, entries |-> entries]
\* what the network gives for one feed
Responses ==
    {Raised(""), Raised("404 Client Error: Not Found"),
     Document(<<>>, <<>>), Document(<<RssItem>>, <<>>),
     Document(<<>>, <<AtomNoLink>>),
     Document(<<>>, <<AtomEntry, AtomNoTitle>>)}

\* sep.join(parts)
RECURSIVE Join(_, _)
Join(parts, sep) ==
    IF parts = <<>> THEN ""
    ELSE IF Len(parts) = 1 THEN parts[1]
    ELSE parts[1] \o sep \o Join(Tail(parts), sep)

InitRun ==
    /\ relevant = <<>>
    /\ region_articles = [r \in Range(RegionIds) |-> <<>>]
    /\ global_articles = <<>>
    /\ stage = "fetch"
    /\ idleText /\ idleRegion /\ idleScore /\ idleOut /\ idleFetch /\ idleRun

\* lines 508-515, one iteration
Fetch ==
    /\ stage = "fetch"
    /\ feed_i <= Len(RunFeeds)
    /\ \E response \in Responses :
          LET feed == RunFeeds[feed_i]
              res  == fetch_feed(feed, response)
          IN  /\ IF Truthy(res.err)
                 THEN /\ errors' = Append(errors,
                             [region |-> Join(feed.regions, ","),
                              source |-> feed.name,
                              error  |-> res.err.text,
                              time   |-> NOW])
                      /\ source_stats' =
                             [source_stats EXCEPT !.failed = @ + 1]
                 ELSE /\ errors' = errors
                      /\ source_stats' = [source_stats EXCEPT !.ok = @ + 1]
              /\ all_raw' = all_raw \o res.items
              /\ responses' = Append(responses, response)
    /\ feed_i' = feed_i + 1
    /\ UNCHANGED <<textVars, bucketVars, regionVars, scoreVars, outVars,
                   runVars>>

\* the filter applied to an empty corpus only when some feed gave a document
Filter_NeedsItems ==
    /\ stage = "fetch"
    /\ feed_i > Len(RunFeeds)
    /\ all_raw # <<>>
    /\ relevant' = SelectSeq(all_raw,
                             LAMBDA a : is_beverage_relevant(TextOf(a)))
    /\ stage' = "relevant"
    /\ UNCHANGED <<region_articles, global_articles>>
    /\ UNCHANGED <<textVars, regionVars, scoreVars, outVars, fetchVars,
                   runVars>>

\* line 525
Filter ==
    /\ stage = "fetch"
    /\ feed_i > Len(RunFeeds)
    /\ relevant' = SelectSeq(all_raw,
                             LAMBDA a : is_beverage_relevant(TextOf(a)))
    /\ stage' = "relevant"
    /\ UNCHANGED <<region_articles, global_articles>>
    /\ UNCHANGED <<textVars, regionVars, scoreVars, outVars, fetchVars,
                   runVars>>

\* lines 550-551
BeginRegions ==
    /\ stage = "bucketed"
    /\ region_news' = <<>>
    /\ health' = <<>>
    /\ stage' = "regions"
    /\ UNCHANGED <<relevant, region_articles, global_articles, cur_rid,
                   formatted>>
    /\ UNCHANGED <<textVars, regionVars, scoreVars, fetchVars, runVars>>

\* lines 583-618: the output and the health record of the iteration
iteration_output(rel, cand, w, r, stats) ==
    Only({Only({[relevant      |-> rel,
                 articles      |-> cand,
                 in_window     |-> idx,
                 used_fallback |-> w.used_fallback,
                 formatted     |-> out,
                 health        |-> health_record(cand, idx, out,
                                                 w.used_fallback, stats)]
                  : out \in {format_output(cand, idx, r)}})
             : idx \in {sort_by_score(cand, w.in_window)}})

\* the scoring that keeps the best score an article ever had
iteration_score_KeepBest(rel, upos, w, r, stats) ==
    Only({iteration_output(scored, [k \in 1..Len(upos) |-> scored[upos[k]]],
                           w, r, stats)
             : scored \in
                 {[i \in 1..Len(rel) |->
                     IF \E k \in Range(w.in_window) : upos[k] = i
                     THEN IF "score" \in DOMAIN rel[i]
                          THEN [score |->
                                  Max(rel[i].score,
                                      score_in_region(rel[i], r,
                                                      w.used_fallback).score)]
                               @@ score_in_region(rel[i], r, w.used_fallback)
                          ELSE score_in_region(rel[i], r, w.used_fallback)
                     ELSE rel[i]]}})

\* lines 567-578: the scoring loop writes on the articles themselves, which
\* the buckets of the other regions hold as well
iteration_score(rel, upos, w, r, stats) ==
    Only({iteration_output(scored, [k \in 1..Len(upos) |-> scored[upos[k]]],
                           w, r, stats)
             : scored \in
                 {[i \in 1..Len(rel) |->
                     IF \E k \in Range(w.in_window) : upos[k] = i
                     THEN score_in_region(rel[i], r, w.used_fallback)
                     ELSE rel[i]]}})

\* lines 554-618: one iteration of the region loop for region r; bucket
\* holds positions in rel, the list of relevant articles
region_iteration(rel, bucket, r, stats) ==
    Only({Only({iteration_score(rel, upos, w, r, stats)
                  : w \in {apply_window([k \in 1..Len(upos) |-> rel[upos[k]]])}})
             : upos \in
                 {Only({[k \in 1..Len(uniq) |-> bucket[uniq[k]]]
                          : uniq \in {deduplicate([k \in 1..Len(bucket) |->
                                                     rel[bucket[k]]])}})}})

\* lines 553-618, one iteration
RegionStep ==
    /\ stage = "regions"
    /\ Cardinality(DOMAIN health) < Len(RegionIds)
    /\ \E r \in {RegionIds[Cardinality(DOMAIN health) + 1]} :
       \E it \in {region_iteration(relevant, region_articles[r], r,
                                   source_stats)} :
           /\ cur_rid' = r
           /\ relevant' = it.relevant
           /\ articles' = it.articles
           /\ unique' = [k \in 1..Len(it.articles) |-> k]
           /\ in_window' = it.in_window
           /\ used_fallback' = it.used_fallback
           /\ formatted' = it.formatted
           /\ region_news' = (r :> it.formatted) @@ region_news
           /\ health' = (r :> it.health) @@ health
    /\ phase' = "reported"
    /\ UNCHANGED <<region_articles, global_articles, stage>>
    /\ UNCHANGED <<textVars, scoreVars, fetchVars, runVars>>

\* [a for a in arts if a["category"] == c][:5]
of_category(arts, c) == Take(SelectSeq(arts, LAMBDA a : a.category = c), 5)

\* [a["url"] for a in arts[:3]]
evidence_urls(arts) == [k \in 1..Min(3, Len(arts)) |-> arts[k].url]

\* the tags of the articles in the order the Counter of line 684 meets them
RECURSIVE all_tags(_)
all_tags(arts) ==
    IF arts = <<>> THEN <<>>
    ELSE Head(arts).product_tags \o all_tags(Tail(arts))

\* the keys of the Counter, in the order of their first occurrence
counter_keys(tags) ==
    SelectSeq([k \in 1..Len(tags) |-> k],
              LAMBDA k : \A j \in 1..(k - 1) : tags[j] # tags[k])

\* the count of the key first met at position k
counter_count(tags, k) == Cardinality({j \in 1..Len(tags) : tags[j] = tags[k]})

\* Counter.most_common: the keys by decreasing count, keys of equal count in
\* the order of their first occurrence
RECURSIVE most_common(_, _)
most_common(tags, keys) ==
    IF keys = <<>> THEN <<>>
    ELSE Only({SelectSeq(keys, LAMBDA k : counter_count(tags, k) = top)
                 \o most_common(tags,
                        Only({x : x \in {SelectSeq(keys, LAMBDA k :
                                            counter_count(tags, k) < top)}}))
                 : top \in {SetMax({counter_count(tags, keys[n])
                                      : n \in 1..Len(keys)})}})

\* lines 684-694
signals(arts) ==
    Only({Only({[n \in 1..Min(5, Len(keys)) |->
                   [support_count |-> counter_count(tags, keys[n]),
                    top_keywords  |-> <<tags[keys[n]]>>,
                    confidence    |->
                        IF counter_count(tags, keys[n]) >= 5 THEN "high"
                        ELSE IF counter_count(tags, keys[n]) >= 2 THEN "medium"
                        ELSE "low"]]
                  : keys \in {most_common(tags, counter_keys(tags))}})
             : tags \in {all_tags(arts)}})

\* lines 627-743 for the output list of one region, without the texts of the
\* entries
briefing(arts) ==
    [executive_summary |->
        [k \in 1..Min(5, Len(arts)) |->
            [headline      |-> arts[k].title,
             detail        |-> Take(arts[k].summary, 200),
             evidence_urls |-> <<arts[k].url>>,
             confidence    |-> arts[k].confidence]],
     key_launches       |-> evidence_urls(of_category(arts, "launch")),
     competitor_moves   |-> evidence_urls(of_category(arts, "competitor")),
     regulatory_watch   |-> evidence_urls(of_category(arts, "regulatory")),
     pricing_promotions |-> evidence_urls(of_category(arts, "pricing")),
     signals            |-> signals(arts),
     talking_points |->
        (IF of_category(arts, "launch") # <<>>
         THEN <<[customer_type |-> "retail",
                 supporting_evidence_urls |->
                     evidence_urls(of_category(arts, "launch"))]>>
         ELSE <<>>)
        \o (IF of_category(arts, "regulatory") # <<>>
            THEN <<[customer_type |-> "key_account",
                    supporting_evidence_urls |->
                        evidence_urls(of_category(arts, "regulatory"))]>>
            ELSE <<>>)
        \o (IF Len(SelectSeq(arts, LAMBDA a :
                       "functional" \in Range(a.product_tags))) >= 2
            THEN <<[customer_type |-> "distributor",
                    supporting_evidence_urls |->
                        evidence_urls(SelectSeq(arts, LAMBDA a :
                            "functional" \in Range(a.product_tags)))]>>
            ELSE <<>>),
     recommended_actions |->
        (IF of_category(arts, "launch") # <<>>
         THEN <<[owner |-> "sales",
                 evidence_urls |-> evidence_urls(of_category(arts, "launch"))]>>
         ELSE <<>>)
        \o (IF of_category(arts, "regulatory") # <<>>
            THEN <<[owner |-> "sales",
                    evidence_urls |->
                        evidence_urls(of_category(arts, "regulatory"))]>>
            ELSE <<>>)]

\* lines 624-743
Briefings ==
    /\ stage = "regions"
    /\ Cardinality(DOMAIN health) = Len(RegionIds)
    /\ briefings' = [r \in DOMAIN region_news |-> briefing(region_news[r])]
    /\ stage' = "briefed"
    /\ UNCHANGED <<relevant, region_articles, global_articles>>
    /\ UNCHANGED <<saved, run_no, first_news>>
    /\ UNCHANGED <<textVars, regionVars, scoreVars, outVars, fetchVars>>

\* sum(len(a) for a in region_news.values())
RECURSIVE total_items(_, _)
total_items(news, rids) ==
    IF rids = <<>> THEN 0
    ELSE (IF Head(rids) \in DOMAIN news THEN Len(news[Head(rids)]) ELSE 0)
         + total_items(news, Tail(rids))

\* lines 837-883: the three documents made from the run's articles
Save ==
    /\ stage = "briefed"
    /\ saved' =
          [sales_news |->
              [regions |-> region_news,
               errors  |-> errors,
               counts  |-> [r \in DOMAIN region_news |-> Len(region_news[r])]],
           sales_briefings |-> [regions |-> briefings],
           data_health |->
              [regions |-> health,
               global  |->
                  [total_items          |-> total_items(region_news, RegionIds),
                   total_sources_ok     |-> source_stats.ok,
                   total_sources_failed |-> source_stats.failed]]]
    /\ stage' = "done"
    /\ UNCHANGED <<relevant, region_articles, global_articles>>
    /\ UNCHANGED <<briefings, run_no, first_news>>
    /\ UNCHANGED <<textVars, regionVars, scoreVars, outVars, fetchVars>>

NextRun ==
    Fetch \/ Filter \/ Enrich \/ Bucket \/ BeginRegions \/ RegionStep
        \/ Briefings \/ Save

\* every step of run_pipeline is taken once the step before it has returned
SpecRun == InitRun /\ [][NextRun]_vars /\ WF_vars(NextRun)

\* C17: a feed whose fetch raised, whatever the message, contributes no item
\* and exactly one error entry with its name, the message and the time, and
\* counts as failed and not as ok; after the loop ok + failed is the number
\* of feeds and there are as many error entries as failed feeds.
C17_FailureRecorded ==
    /\ \A k \in 1..Len(responses) :
          responses[k].raised =>
             /\ \A i \in 1..Len(all_raw) : all_raw[i].source # RunFeeds[k].name
             /\ Cardinality({e \in 1..Len(errors) :
                               /\ errors[e].source = RunFeeds[k].name
                               /\ errors[e].error = responses[k].message
                               /\ errors[e].time = NOW}) = 1
    /\ source_stats.failed =
          Cardinality({k \in 1..Len(responses) : responses[k].raised})
    /\ source_stats.ok =
          Cardinality({k \in 1..Len(responses) : ~responses[k].raised})
    /\ feed_i > Len(RunFeeds) =>
          /\ source_stats.ok + source_stats.failed = Len(RunFeeds)
          /\ Len(errors) = source_stats.failed

\* C18: no article with an empty title or an empty url is returned by
\* fetch_feed, reaches the filter, a region bucket or an output list.
C18_RequiredFields ==
    /\ \A i \in 1..Len(all_raw) : all_raw[i].title # "" /\ all_raw[i].url # ""
    /\ \A i \in 1..Len(relevant) :
          relevant[i].title # "" /\ relevant[i].url # ""
    /\ \A r \in DOMAIN region_news :
          \A k \in 1..Len(region_news[r]) :
             region_news[r][k].title # "" /\ region_news[r][k].url # ""

\* C19: whatever the feeds give, the run reaches its end, and then the news,
\* the briefings and the health document have an entry for every configured
\* region; a region without output articles has an empty list, the status
\* "error" and a note.
C19_RunCompletes ==
    /\ (stage = "fetch") ~> (stage = "done")
    /\ [](stage = "done" =>
            /\ DOMAIN saved.sales_news.regions = Range(RegionIds)
            /\ DOMAIN saved.sales_briefings.regions = Range(RegionIds)
            /\ DOMAIN saved.data_health.regions = Range(RegionIds)
            /\ \A r \in Range(RegionIds) :
                  saved.sales_news.regions[r] = <<>> =>
                     /\ saved.data_health.regions[r].items = 0
                     /\ saved.data_health.regions[r].status = "error"
                     /\ saved.data_health.regions[r].notes # <<>>)

\* every feed failed and the run is done with six empty regions
C19_Witness ==
    /\ stage = "done"
    /\ Len(responses) = Len(RunFeeds)
    /\ \A k \in 1..Len(responses) : responses[k].raised
    /\ \A r \in Range(RegionIds) : saved.sales_news.regions[r] = <<>>

\* the list of fetched items in which the relevant ones are the objects the
\* run has written on (line 525 puts the same dicts in relevant)
RECURSIVE written_items(_, _)
written_items(raw, rel) ==
    IF raw = <<>> THEN <<>>
    ELSE IF is_beverage_relevant(TextOf(Head(raw)))
         THEN <<Head(rel)>> \o written_items(Tail(raw), Tail(rel))
         ELSE <<Head(raw)>> \o written_items(Tail(raw), rel)

\* lines 523-601 a second time on the same list of fetched items and with
\* the same NOW: on fresh copies of the items or on the objects of the first
\* run
Rerun ==
    /\ stage = "done"
    /\ run_no = 1
    /\ run_no' = 2
    /\ first_news' = region_news
    /\ \E same_objects \in BOOLEAN :
          all_raw' = IF same_objects THEN written_items(all_raw, relevant)
                     ELSE all_raw
    /\ stage' = "fetch"
    /\ UNCHANGED <<relevant, region_articles, global_articles>>
    /\ UNCHANGED <<feed_i, errors, source_stats, responses, briefings, saved>>
    /\ UNCHANGED <<textVars, regionVars, scoreVars, outVars>>

NextRerun == NextRun \/ Rerun

SpecRerun == InitRun /\ [][NextRerun]_vars

\* C20: the second run of the stages after the fetch gives every region the
\* output list of the first run, article by article with the same category,
\* product tags, entities, region and score.
C20_Deterministic ==
    (run_no = 2 /\ stage \in {"briefed", "done"}) => region_news = first_news

\* a second run on the objects of the first run that has given a region two
\* articles
C20_Witness ==
    /\ run_no = 2
    /\ stage = "done"
    /\ \E i \in 1..Len(all_raw) : "score" \in DOMAIN all_raw[i]
    /\ \E r \in DOMAIN region_news : Len(region_news[r]) >= 2

\* C21: in the briefing of every region whose output list has an article,
\* talking_points and recommended_actions are both non-empty.
C21_BriefingNonEmpty ==
    stage \in {"briefed", "done"} =>
        \A r \in DOMAIN briefings :
            region_news[r] # <<>> =>
                /\ briefings[r].talking_points # <<>>
                /\ briefings[r].recommended_actions # <<>>

\* the number of output articles of region r that carry product tag t
TagCount(r, t) ==
    Cardinality({k \in 1..Len(region_news[r]) :
                    t \in Range(region_news[r][k].product_tags)})

\* C22: the signals of a region are at most five, each for a product tag of
\* the region's output articles with its article count and the confidence
\* "high" from 5, "medium" from 2 and "low" below; no tag without a signal is
\* more frequent than a tag with one; and a region with articles has at
\* least one signal, also when no article carries a tag.
C22_Signals ==
    stage \in {"briefed", "done"} =>
        \A r \in DOMAIN briefings :
            /\ Len(briefings[r].signals) <= 5
            /\ \A n \in 1..Len(briefings[r].signals) :
                  \E t \in {PRODUCT_TAG_MAP[x].tag : x \in 1..Len(PRODUCT_TAG_MAP)} :
                     /\ briefings[r].signals[n].top_keywords = <<t>>
                     /\ briefings[r].signals[n].support_count = TagCount(r, t)
                     /\ TagCount(r, t) >= 1
                     /\ briefings[r].signals[n].confidence =
                           IF TagCount(r, t) >= 5 THEN "high"
                           ELSE IF TagCount(r, t) >= 2 THEN "medium" ELSE "low"
                     /\ \A u \in {PRODUCT_TAG_MAP[x].tag
                                    : x \in 1..Len(PRODUCT_TAG_MAP)} :
                           (\A m \in 1..Len(briefings[r].signals) :
                               briefings[r].signals[m].top_keywords # <<u>>)
                               => TagCount(r, u) <= TagCount(r, t)
            /\ region_news[r] # <<>> => briefings[r].signals # <<>>

ItemsOf(k) == SelectSeq(all_raw, LAMBDA a : a.source = RunFeeds[k].name)
\* the entries fetch_feed iterated over in the k-th response
EntriesOf(k) ==
    IF responses[k].items # <<>> THEN responses[k].items
    ELSE responses[k].entries
\* the text of the child element of an entry under the plain name, or else
\* under the Atom name
TextAt(e, tag) ==
    IF e.plain[tag].found THEN e.plain[tag].text ELSE e.atom[tag].text
\* the text of the date field of an entry
DateText(e) ==
    first_nonempty(Strip(TextAt(e, "pubDate")), Strip(TextAt(e, "published")),
                   Strip(TextAt(e, "updated")))

\* C23: an entry whose date field is absent or of no known format gives an
\* article published at the time of the run; such an article is inside the
\* 28-day window, and it is in the window list of every region whose
\* deduplicated candidates hold it.
C23_DateFallback ==
    /\ \A k \in 1..Len(responses) :
          ~responses[k].raised =>
             \A n \in 1..Len(EntriesOf(k)) :
                (\A d \in KnownDates : d.text # DateText(EntriesOf(k)[n]))
                    => /\ n <= Len(ItemsOf(k))
                       /\ ItemsOf(k)[n].published = NOW
                       /\ ItemsOf(k)[n].published >= CUTOFF
    /\ (stage = "regions" /\ phase = "reported") =>
          \A k \in 1..Len(articles) :
             articles[k].published = NOW => k \in Range(in_window)

\* an entry with the date text "yesterday" and an entry without a date have
\* been fetched, and the first has given an article of a region's output,
\* published at the time of the run
C23_Witness ==
    /\ stage = "done"
    /\ \E k \in 1..Len(responses) :
          /\ ~responses[k].raised
          /\ \E n \in 1..Len(EntriesOf(k)) :
                DateText(EntriesOf(k)[n]) = "yesterday"
    /\ \E k \in 1..Len(responses) :
          /\ ~responses[k].raised
          /\ \E n \in 1..Len(EntriesOf(k)) : DateText(EntriesOf(k)[n]) = ""
    /\ \E r \in DOMAIN region_news :
          \E k \in 1..Len(region_news[r]) :
             /\ region_news[r][k].title = "Australian beverage"
             /\ region_news[r][k].published = NOW

\* C28: for an <item> of an RSS document whose <title>, <link>,
\* <description> and <pubDate> are leaf elements with text, the article
\* fetch_feed returns has the title and the url of these elements, the
\* cleaned description as summary and the parsed pubDate as publish time.
C28_RssFields ==
    \A k \in 1..Len(responses) :
        (~responses[k].raised /\ responses[k].items # <<>>) =>
            \A n \in 1..Len(responses[k].items) :
                (\A tag \in {"title", "link", "description", "pubDate"} :
                    /\ responses[k].items[n].plain[tag].found
                    /\ responses[k].items[n].plain[tag].children = 0
                    /\ Strip(responses[k].items[n].plain[tag].text) # "")
                => /\ n <= Len(ItemsOf(k))
                   /\ ItemsOf(k)[n].title =
                         Strip(responses[k].items[n].plain["title"].text)
                   /\ ItemsOf(k)[n].url =
                         Strip(responses[k].items[n].plain["link"].text)
                   /\ ItemsOf(k)[n].summary =
                         clean_html(Strip(
                             responses[k].items[n].plain["description"].text))
                   /\ ItemsOf(k)[n].published =
                         parse_date(Strip(
                             responses[k].items[n].plain["pubDate"].text))

\* C29: every article of the output list of a region carries the
\* confidence and the score computed from the keywords and the fallback
\* flag of that region, and a step of the region loop leaves the output
\* lists of the regions before it as they are.
C29_RegionIsolation ==
    /\ [][stage = "regions" =>
             \A r \in DOMAIN region_news : region_news'[r] = region_news[r]]_vars
    /\ []((stage = "regions" /\ phase = "reported") =>
             \A k \in 1..Len(formatted) :
                /\ formatted[k].country_region = cur_rid
                /\ formatted[k].score =
                      score_article(articles[in_window[k]],
                                    region_match(TextOf(formatted[k]), cur_rid))
                /\ formatted[k].confidence =
                      confidence(formatted[k].published,
                                 region_match(TextOf(formatted[k]), cur_rid),
                                 used_fallback))

\* one article in the output of two regions, with two scores
C29_Witness ==
    /\ stage = "done"
    /\ \E r1 \in DOMAIN region_news : \E r2 \in DOMAIN region_news :
          \E k1 \in 1..Len(region_news[r1]) : \E k2 \in 1..Len(region_news[r2]) :
             /\ r1 # r2
             /\ region_news[r1][k1].url = region_news[r2][k2].url
             /\ region_news[r1][k1].title = region_news[r2][k2].title
             /\ region_news[r1][k1].score # region_news[r2][k2].score

====
